---- MODULE Spec2Model ----
\* A model of the simpledb storage engine, hash index and statement executor:
\* heap log + rid directory + tombstones (storage/heap.py), typed-key hash
\* indexes (index/hash_index.py) and the executor's INSERT / UPDATE / DELETE /
\* CREATE INDEX / SELECT handlers (exec/executor.py, exec/join.py).
EXTENDS Integers, Sequences, FiniteSets, TLC

\* ---------------------------------------------------------------------------
\* Bounds of the model
\* ---------------------------------------------------------------------------

\* total number of heap records (over all tables) the model lets statements write
MaxRecords == 3

\* ---------------------------------------------------------------------------
\* Values: Python int / str / bool / None as a tagged record
\* ---------------------------------------------------------------------------

Null == [k |-> "n", v |-> 0]

IntV(n) == [k |-> "i", v |-> n]

StrV(s) == [k |-> "s", v |-> s]

BoolV(b) == [k |-> "b", v |-> b]

\* the literals statements are built from (parser.parse_literal: INT, STRING, BOOL, NULL)
Literals == {Null, IntV(1), IntV(2), StrV("a"), BoolV(TRUE)}

\* numeric view of a value: bool is a subclass of int in Python
NumOf(a) == IF a.k = "b" THEN (IF a.v THEN 1 ELSE 0) ELSE a.v

\* Python's == on row values: None only equals None, True == 1 and False == 0,
\* str only equals an equal str
PyEq(a, b) ==
  IF a.k \in {"i", "b"} /\ b.k \in {"i", "b"}
    THEN NumOf(a) = NumOf(b)
    ELSE a.k = b.k /\ a.v = b.v

\* membership of a value in a Python set of values (hash + ==)
PyIn(a, S) == \E b \in S : PyEq(a, b)

\* ---------------------------------------------------------------------------
\* JSON text of a value as written to / read from the heap log
\* ---------------------------------------------------------------------------

json_dumps(a) ==
  CASE a.k = "n" -> "null"
    [] a.k = "b" -> (IF a.v THEN "true" ELSE "false")
    [] a.k = "i" -> ToString(a.v)
    [] a.k = "s" -> "\"" \o a.v \o "\""

json_loads(tok) == CHOOSE a \in Literals \cup {BoolV(FALSE)} : json_dumps(a) = tok

\* ---------------------------------------------------------------------------
\* Catalog: the tables and their column definitions
\* ---------------------------------------------------------------------------

ColumnDef(name, typ, params, nn, uq, pk) ==
  [name |-> name, typ |-> typ, params |-> params,
   not_null |-> nn, unique |-> uq, primary_key |-> pk]

Tables == {"users", "cats"}

\* users(id INTEGER PRIMARY KEY, email VARCHAR(1) UNIQUE)
\* cats(name TEXT, flag BOOLEAN NOT NULL)
Schema ==
  [users |-> << ColumnDef("id", "INTEGER", << >>, FALSE, FALSE, TRUE),
                ColumnDef("email", "VARCHAR", <<1>>, FALSE, TRUE, FALSE) >>,
   cats  |-> << ColumnDef("name", "TEXT", << >>, FALSE, FALSE, FALSE),
                ColumnDef("flag", "BOOLEAN", << >>, TRUE, FALSE, FALSE) >>]

column_names(t) == {Schema[t][i].name : i \in 1..Len(Schema[t])}

NoCol == "<none>"

\* TableMeta.primary_key_column: first column flagged PRIMARY KEY, or none
primary_key_column(t) ==
  LET pks == {i \in 1..Len(Schema[t]) : Schema[t][i].primary_key}
  IN IF pks = {} THEN NoCol
     ELSE Schema[t][CHOOSE i \in pks : \A j \in pks : i <= j].name

\* dict.get(col): None when the key is missing
Get(row, c) == IF c \in DOMAIN row THEN row[c] ELSE Null

\* ---------------------------------------------------------------------------
\* Small sequence helpers
\* ---------------------------------------------------------------------------

RECURSIVE SortedSeq(_)
\* sorted(set of ints)
SortedSeq(S) ==
  IF S = {} THEN << >>
  ELSE LET m == CHOOSE x \in S : \A y \in S : x <= y
       IN <<m>> \o SortedSeq(S \ {m})

Range(s) == {s[i] : i \in 1..Len(s)}

\* ---------------------------------------------------------------------------
\* Heap table: append-only JSONL log, rid directory, tombstones, rid counter
\* A heap h is [log, dir, tomb, next_rid, written]; a log line is [rid, cols] with
\* the JSON text of every column value.  written is a history of the calls of
\* HeapTable.insert: the row each rid was inserted with.
\* ---------------------------------------------------------------------------

\* the stored line {"_rid": rid, **row} as JSON
EncodeLine(rid, row) == [rid |-> rid, cols |-> [c \in DOMAIN row |-> json_dumps(row[c])]]

\* json.loads of a line: a dict with _rid and the column values
ParseLine(line) == [rid |-> line.rid, row |-> [c \in DOMAIN line.cols |-> json_loads(line.cols[c])]]

RECURSIVE ColsLen(_, _, _)
\* bytes of the ,"name":value parts of a line
ColsLen(cols, line, i) ==
  IF i > Len(cols) THEN 0
  ELSE Len(",\"") + Len(cols[i].name) + Len("\":") + Len(line.cols[cols[i].name])
       + ColsLen(cols, line, i + 1)

\* byte length of one line of the log, newline included
LineLen(t, line) ==
  Len("{\"_rid\":") + Len(ToString(line.rid)) + ColsLen(Schema[t], line, 1) + Len("}") + 1

RECURSIVE OffsetOf(_, _, _)
\* byte offset at which the i-th line of the log starts (f.tell())
OffsetOf(t, lg, i) == IF i <= 1 THEN 0 ELSE OffsetOf(t, lg, i - 1) + LineLen(t, lg[i - 1])

FileSize(t, lg) == OffsetOf(t, lg, Len(lg) + 1)

\* f.seek(off); f.readline(); json.loads
ReadLineAt(t, lg, off) ==
  IF off >= FileSize(t, lg) THEN [st |-> "eof", line |-> << >>]
  ELSE IF \E i \in 1..Len(lg) : OffsetOf(t, lg, i) = off
    THEN [st |-> "line", line |-> lg[CHOOSE i \in 1..Len(lg) : OffsetOf(t, lg, i) = off]]
    ELSE [st |-> "corrupt", line |-> << >>]

EmptyHeap ==
  [log |-> << >>, dir |-> [r \in {} |-> 0], tomb |-> {}, next_rid |-> 1, written |-> << >>]

\* RidDirectory.set
DirSet(d, rid, off) == [r \in DOMAIN d \cup {rid} |-> IF r = rid THEN off ELSE d[r]]

\* a heap insert that records the number of the line instead of its byte offset
HeapInsertLineOffset(t, h, row) ==
  [h   |-> [log |-> Append(h.log, EncodeLine(h.next_rid, row)),
            dir |-> DirSet(h.dir, h.next_rid, Len(h.log)),
            tomb |-> h.tomb,
            next_rid |-> h.next_rid + 1,
            written |-> DirSet(h.written, h.next_rid, row)],
   rid |-> h.next_rid]

\* a heap insert that takes the count of live rows plus one as the next rid
HeapInsertReusesRid(t, h, row) ==
  [h   |-> [log |-> Append(h.log, EncodeLine(Cardinality(DOMAIN h.dir \ h.tomb) + 1, row)),
            dir |-> DirSet(h.dir, Cardinality(DOMAIN h.dir \ h.tomb) + 1, FileSize(t, h.log)),
            tomb |-> h.tomb,
            next_rid |-> Cardinality(DOMAIN h.dir \ h.tomb) + 2,
            written |-> DirSet(h.written, Cardinality(DOMAIN h.dir \ h.tomb) + 1, row)],
   rid |-> Cardinality(DOMAIN h.dir \ h.tomb) + 1]

\* an insert that advances the counter by two
HeapInsertPointsSkipsRid(t, h, row) ==
  <<[log |-> h.log,
     dir |-> h.dir,
     tomb |-> h.tomb,
     next_rid |-> h.next_rid + 2,
     written |-> h.written],
    [log |-> Append(h.log, EncodeLine(h.next_rid, row)),
     dir |-> h.dir,
     tomb |-> h.tomb,
     next_rid |-> h.next_rid + 2,
     written |-> DirSet(h.written, h.next_rid, row)],
    [log |-> Append(h.log, EncodeLine(h.next_rid, row)),
     dir |-> DirSet(h.dir, h.next_rid, FileSize(t, h.log)),
     tomb |-> h.tomb,
     next_rid |-> h.next_rid + 2,
     written |-> DirSet(h.written, h.next_rid, row)]>>

\* the heap after each of the three writes of HeapTable.insert, in the order of
\* the code: _save_meta with the incremented counter, the append of the line at
\* the end of the file, rid_dir.set(rid, offset) with rid_dir.save()
HeapInsertPoints(t, h, row) ==
  <<[log |-> h.log,
     dir |-> h.dir,
     tomb |-> h.tomb,
     next_rid |-> h.next_rid + 1,
     written |-> h.written],
    [log |-> Append(h.log, EncodeLine(h.next_rid, row)),
     dir |-> h.dir,
     tomb |-> h.tomb,
     next_rid |-> h.next_rid + 1,
     written |-> DirSet(h.written, h.next_rid, row)],
    [log |-> Append(h.log, EncodeLine(h.next_rid, row)),
     dir |-> DirSet(h.dir, h.next_rid, FileSize(t, h.log)),
     tomb |-> h.tomb,
     next_rid |-> h.next_rid + 1,
     written |-> DirSet(h.written, h.next_rid, row)]>>

\* HeapTable.insert: take the next rid and persist the counter, append the
\* line, record its offset in the directory
HeapInsert(t, h, row) == [h |-> HeapInsertPoints(t, h, row)[3], rid |-> h.next_rid]

\* a tombstone that keeps only the rid tombstoned last
HeapTombstoneOnlyLast(h, rid) == [h EXCEPT !.tomb = {rid}]

\* a tombstone that also takes the rid out of the directory
HeapTombstoneDropsEntry(h, rid) ==
  [h EXCEPT !.tomb = h.tomb \cup {rid}, !.dir = [r \in DOMAIN h.dir \ {rid} |-> h.dir[r]]]

\* HeapTable.tombstone / Tombstones.add
HeapTombstone(h, rid) == [h EXCEPT !.tomb = h.tomb \cup {rid}]

\* HeapTable.scan_active: every line of the log, in order, whose rid is not tombstoned
scan_active(h) ==
  LET objs == [i \in 1..Len(h.log) |-> ParseLine(h.log[i])]
  IN SelectSeq(objs, LAMBDA o : o.rid \notin h.tomb)

NoObj == [rid |-> 0, row |-> << >>]

\* a check that trusts the directory: the record read is returned whatever its rid
CheckLineTrustsDirectory(rd, rid) ==
  IF rd.st # "line" THEN [st |-> "error", obj |-> NoObj]
  ELSE [st |-> "row", obj |-> ParseLine(rd.line)]

\* the checks of HeapTable.get_by_rid on the line read at the directory offset:
\* past EOF or corrupt is an error, and so is a line that carries another rid
CheckLine(rd, rid) ==
  IF rd.st # "line" THEN [st |-> "error", obj |-> NoObj]
  ELSE IF rd.line.rid # rid THEN [st |-> "error", obj |-> NoObj]
  ELSE [st |-> "row", obj |-> ParseLine(rd.line)]

\* HeapTable.get_by_rid: None when tombstoned or unknown, else the line at the
\* directory offset, which must carry the requested rid
get_by_rid(t, h, rid) ==
  IF rid \in h.tomb THEN [st |-> "none", obj |-> NoObj]
  ELSE IF rid \notin DOMAIN h.dir THEN [st |-> "none", obj |-> NoObj]
  ELSE CheckLine(ReadLineAt(t, h.log, h.dir[rid]), rid)

RECURSIVE RebuildFrom(_, _, _, _)
\* the scan of rebuild_directory_from_data from line i on: rid_dir.set(rid, offset)
\* with the offset f.tell() gave before the line was read
RebuildFrom(t, lg, i, d) ==
  IF i > Len(lg) THEN d
  ELSE RebuildFrom(t, lg, i + 1, DirSet(d, lg[i].rid, OffsetOf(t, lg, i)))

\* a rebuild that leaves out the rids that are tombstoned
RebuildWithoutTombstoned(t, h) ==
  [h EXCEPT !.dir = [rid \in DOMAIN RebuildFrom(t, h.log, 1, EmptyHeap.dir) \ h.tomb |->
                       RebuildFrom(t, h.log, 1, EmptyHeap.dir)[rid]]]

\* HeapTable.rebuild_directory_from_data: clear the directory, then enter every
\* record of the log, tombstoned or not
rebuild_directory_from_data(t, h) ==
  [h EXCEPT !.dir = RebuildFrom(t, h.log, 1, EmptyHeap.dir)]

\* an open that never rebuilds
HeapOpenKeepsDirectory(t, h) == h

\* HeapTable.open on the files of a table: the directory is rebuilt when its
\* mapping is empty and the data file is not
HeapOpen(t, h) ==
  IF h.dir = EmptyHeap.dir /\ FileSize(t, h.log) > 0 THEN rebuild_directory_from_data(t, h) ELSE h

\* ---------------------------------------------------------------------------
\* Hash index: mapping encoded key -> set of rids
\* ---------------------------------------------------------------------------

\* a key that is the text of the value without the tag of its kind
EncodeKeyUntagged(a) ==
  CASE a.k = "n" -> "null"
    [] a.k = "b" -> (IF a.v THEN "true" ELSE "false")
    [] a.k = "i" -> ToString(a.v)
    [] a.k = "s" -> a.v

\* encode_key: the tag of the kind, then the text of the value
encode_key(a) ==
  CASE a.k = "n" -> "n:null"
    [] a.k = "b" -> "b:" \o (IF a.v THEN "true" ELSE "false")
    [] a.k = "i" -> "i:" \o ToString(a.v)
    [] a.k = "s" -> "s:" \o a.v

EmptyMapping == [x \in {} |-> {}]

\* mapping.setdefault(key, set()).add(rid)
AddUnderKey(m, key, rid) ==
  [x \in DOMAIN m \cup {key} |->
     IF x = key THEN (IF key \in DOMAIN m THEN m[key] ELSE {}) \cup {rid} ELSE m[x]]

\* an add that files null under the key encode_key gives it
IndexAddIndexesNull(m, value, rid) == AddUnderKey(m, encode_key(value), rid)

\* HashIndex.add
IndexAdd(m, value, rid) ==
  IF value.k = "n" THEN m ELSE AddUnderKey(m, encode_key(value), rid)

\* a remove that keeps the key when its set becomes empty
RemoveUnderKeyKeepsEmptyKey(m, key, rid) ==
  IF key \notin DOMAIN m \/ m[key] = {} THEN m
  ELSE [m EXCEPT ![key] = m[key] \ {rid}]

\* s.discard(rid), and the key is dropped when its set becomes empty
RemoveUnderKey(m, key, rid) ==
  IF key \notin DOMAIN m \/ m[key] = {} THEN m
  ELSE IF m[key] \ {rid} = {}
    THEN [x \in DOMAIN m \ {key} |-> m[x]]
    ELSE [m EXCEPT ![key] = m[key] \ {rid}]

\* a remove that looks the rid up under the value's JSON text, not its encoded key
IndexRemoveUntagged(m, value, rid) ==
  IF value.k = "n" THEN m ELSE RemoveUnderKey(m, json_dumps(value), rid)

\* HashIndex.remove
IndexRemove(m, value, rid) ==
  IF value.k = "n" THEN m ELSE RemoveUnderKey(m, encode_key(value), rid)

\* a lookup that returns the rids of the key in descending order
LookupKeyDescending(m, key) ==
  [i \in 1..Len(SortedSeq(IF key \in DOMAIN m THEN m[key] ELSE {})) |->
     SortedSeq(IF key \in DOMAIN m THEN m[key] ELSE {})[
       Len(SortedSeq(IF key \in DOMAIN m THEN m[key] ELSE {})) + 1 - i]]

\* sorted(mapping.get(key, set()))
LookupKey(m, key) == SortedSeq(IF key \in DOMAIN m THEN m[key] ELSE {})

\* HashIndex.lookup
IndexLookup(m, value) ==
  IF value.k = "n" THEN << >> ELSE LookupKey(m, encode_key(value))

\* HashIndex.save: key -> sorted list of rids
IndexSave(meta, m) ==
  [name |-> meta.name, table_name |-> meta.table_name, column_name |-> meta.column_name,
   mapping |-> [x \in DOMAIN m |-> SortedSeq(m[x])]]

\* HashIndex.open on an existing file: key -> set(list)
IndexLoad(file) == [x \in DOMAIN file.mapping |-> Range(file.mapping[x])]

\* ---------------------------------------------------------------------------
\* Executor helpers.  A store S is [heap, table_indexes, index_cache, index_file]:
\* heap[t] the heap of table t, table_indexes[t] the IndexMeta of t in creation
\* order, index_cache[name] the opened HashIndex mapping, index_file[name] the
\* saved index file.
\* ---------------------------------------------------------------------------

Ok == [status |-> "ok", msg |-> ""]

ExecutionError(msg) == [status |-> "ExecutionError", msg |-> msg]

ConstraintError(msg) == [status |-> "ConstraintError", msg |-> msg]

\* the first error raised of two checks run one after the other
FirstError(a, b) == IF a.status # "ok" THEN a ELSE b

NoTable == "<none>"

NoIndex == [name |-> "<none>", table_name |-> "<none>", column_name |-> "<none>"]

FirstIdx(I) == CHOOSE i \in I : \A j \in I : i <= j

IndexNames(metas) == {metas[i].name : i \in 1..Len(metas)}

MetaNamed(metas, n) == metas[CHOOSE i \in 1..Len(metas) : metas[i].name = n]

\* Executor._open_index: the cached mapping, else the one read from the file,
\* else a new empty one
OpenIndex(S, meta) ==
  IF meta.name \in DOMAIN S.index_cache THEN S.index_cache[meta.name]
  ELSE IF meta.name \in DOMAIN S.index_file THEN IndexLoad(S.index_file[meta.name])
  ELSE EmptyMapping

\* the cache after _open_index of the indexes named in names
OpenIndexes(S, metas, names) ==
  [S EXCEPT !.index_cache =
     [n \in DOMAIN S.index_cache \cup names |->
        IF n \in DOMAIN S.index_cache THEN S.index_cache[n] ELSE OpenIndex(S, MetaNamed(metas, n))]]

\* Executor._table_indexes: every index of the table is opened into the cache
OpenTableIndexes(S, t) == OpenIndexes(S, S.table_indexes[t], IndexNames(S.table_indexes[t]))

\* for idx in indexes: idx.save()
SaveIndexes(S, metas) ==
  [S EXCEPT !.index_file =
     [n \in DOMAIN S.index_file \cup IndexNames(metas) |->
        IF n \in IndexNames(metas) THEN IndexSave(MetaNamed(metas, n), S.index_cache[n])
        ELSE S.index_file[n]]]

\* a statement that leaves the index files as they are
SaveTableIndexesSkipped(S, t) == S

SaveTableIndexes(S, t) == SaveIndexes(S, S.table_indexes[t])

\* the column an index of table t is on
ColumnOfIndex(S, t, n) == MetaNamed(S.table_indexes[t], n).column_name

\* for idx in indexes: idx.add(row.get(idx.column_name), rid)
\* an add that files the row under the rid after the one it was given
AddToTableIndexesUnderNextRid(S, t, row, rid) ==
  [S EXCEPT !.index_cache =
     [n \in DOMAIN S.index_cache |->
        IF n \in IndexNames(S.table_indexes[t])
          THEN IndexAdd(S.index_cache[n], Get(row, ColumnOfIndex(S, t, n)), rid + 1)
          ELSE S.index_cache[n]]]

AddToTableIndexes(S, t, row, rid) ==
  [S EXCEPT !.index_cache =
     [n \in DOMAIN S.index_cache |->
        IF n \in IndexNames(S.table_indexes[t])
          THEN IndexAdd(S.index_cache[n], Get(row, ColumnOfIndex(S, t, n)), rid)
          ELSE S.index_cache[n]]]

\* for idx in indexes: idx.remove(row.get(idx.column_name), rid)
RemoveFromTableIndexes(S, t, row, rid) ==
  [S EXCEPT !.index_cache =
     [n \in DOMAIN S.index_cache |->
        IF n \in IndexNames(S.table_indexes[t])
          THEN IndexRemove(S.index_cache[n], Get(row, ColumnOfIndex(S, t, n)), rid)
          ELSE S.index_cache[n]]]

\* a type check with isinstance(val, int) alone for INTEGER, which lets a bool pass
TypeMatchesBoolAsInt(c, val) ==
  \/ val.k = "n"
  \/ c.typ = "INTEGER" /\ val.k \in {"i", "b"}
  \/ c.typ \in {"TEXT", "DATE", "VARCHAR"} /\ val.k = "s"
       /\ (c.typ = "VARCHAR" => Len(val.v) <= c.params[1])
  \/ c.typ = "BOOLEAN" /\ val.k = "b"

\* Executor._validate_types, one column
TypeMatches(c, val) ==
  \/ val.k = "n"
  \/ c.typ = "INTEGER" /\ val.k = "i"
  \/ c.typ \in {"TEXT", "DATE", "VARCHAR"} /\ val.k = "s"
       /\ (c.typ = "VARCHAR" => Len(val.v) <= c.params[1])
  \/ c.typ = "BOOLEAN" /\ val.k = "b"

\* Executor._validate_types
validate_types(t, row) ==
  IF \A i \in 1..Len(Schema[t]) :
       Schema[t][i].name \in DOMAIN row => TypeMatches(Schema[t][i], row[Schema[t][i].name])
    THEN Ok
    ELSE ExecutionError("Type error")

RECURSIVE row_matches_where_single_table(_, _, _, _)
\* Executor._row_matches_where_single_table from condition i on: "true", "false",
\* or the error raised ("op": operator other than '=', "qualifier": the column is
\* qualified with another table)
row_matches_where_single_table(t, row, where, i) ==
  IF i > Len(where) THEN "true"
  ELSE IF where[i].op # "=" THEN "op"
  ELSE IF where[i].left.table # NoTable /\ where[i].left.table # t THEN "qualifier"
  ELSE IF ~PyEq(Get(row, where[i].left.column), where[i].right) THEN "false"
  ELSE row_matches_where_single_table(t, row, where, i + 1)

WhereError(kind) ==
  IF kind = "op" THEN ExecutionError("Only '=' is supported in WHERE")
  ELSE ExecutionError("WHERE: column qualifier does not match")

\* the values of column c in a list of rows
ColumnValues(rows, c) == {Get(rows[i].row, c) : i \in 1..Len(rows)}

\* the NOT NULL loop: the first (candidate row, column) with a null in a NOT NULL
\* or PRIMARY KEY column decides the error
NullError(cols, bad) ==
  IF bad = {} THEN Ok
  ELSE IF cols[FirstIdx({j \in 1..Len(cols) : <<FirstIdx({p[1] : p \in bad}), j>> \in bad})].primary_key
    THEN ConstraintError("PRIMARY KEY column cannot be NULL")
    ELSE ConstraintError("NOT NULL constraint failed")

\* a null check that looks at the NOT NULL flag only
NullCheckNotNullOnly(t, new_rows) ==
  NullError(Schema[t],
            {p \in (1..Len(new_rows)) \X (1..Len(Schema[t])) :
               Schema[t][p[2]].not_null /\ Get(new_rows[p[1]], Schema[t][p[2]].name).k = "n"})

NullCheck(t, new_rows) ==
  NullError(Schema[t],
            {p \in (1..Len(new_rows)) \X (1..Len(Schema[t])) :
               (Schema[t][p[2]].not_null \/ Schema[t][p[2]].primary_key)
               /\ Get(new_rows[p[1]], Schema[t][p[2]].name).k = "n"})

\* the candidate rows whose value is already among the existing values, and those
\* whose value was seen in an earlier candidate of the batch
DupError(inExisting, inBatch, name) ==
  IF inExisting \cup inBatch = {} THEN Ok
  ELSE IF FirstIdx(inExisting \cup inBatch) \in inExisting
    THEN ConstraintError(name \o " constraint failed: duplicate value")
    ELSE ConstraintError(name \o " constraint failed: duplicate value within statement batch")

\* a primary-key check that compares the candidates with the existing rows only
PkCheckExistingOnly(existing_kept, new_rows, pk_col) ==
  IF pk_col = NoCol THEN Ok
  ELSE DupError({i \in 1..Len(new_rows) :
                   PyIn(Get(new_rows[i], pk_col), ColumnValues(existing_kept, pk_col))},
                {}, "PRIMARY KEY")

\* PRIMARY KEY uniqueness (single column)
PkCheck(existing_kept, new_rows, pk_col) ==
  IF pk_col = NoCol THEN Ok
  ELSE DupError({i \in 1..Len(new_rows) :
                   PyIn(Get(new_rows[i], pk_col), ColumnValues(existing_kept, pk_col))},
                {i \in 1..Len(new_rows) :
                   \E j \in 1..(i - 1) : PyEq(Get(new_rows[j], pk_col), Get(new_rows[i], pk_col))},
                "PRIMARY KEY")

\* a uniqueness check that treats null as a value like any other
UniqueCheckColumnCountsNull(existing_kept, new_rows, ucol) ==
  DupError({i \in 1..Len(new_rows) :
              PyIn(Get(new_rows[i], ucol), ColumnValues(existing_kept, ucol))},
           {i \in 1..Len(new_rows) :
              \E j \in 1..(i - 1) : PyEq(Get(new_rows[j], ucol), Get(new_rows[i], ucol))},
           "UNIQUE")

\* UNIQUE uniqueness of one column (NULLs ignored)
UniqueCheckColumn(existing_kept, new_rows, ucol) ==
  DupError({i \in 1..Len(new_rows) :
              /\ Get(new_rows[i], ucol).k # "n"
              /\ PyIn(Get(new_rows[i], ucol), {x \in ColumnValues(existing_kept, ucol) : x.k # "n"})},
           {i \in 1..Len(new_rows) :
              /\ Get(new_rows[i], ucol).k # "n"
              /\ \E j \in 1..(i - 1) : /\ Get(new_rows[j], ucol).k # "n"
                                       /\ PyEq(Get(new_rows[j], ucol), Get(new_rows[i], ucol))},
           "UNIQUE")

RECURSIVE UniqueCheck(_, _, _, _)
\* the UNIQUE loop over the columns of the table from column j on
UniqueCheck(cols, existing_kept, new_rows, j) ==
  IF j > Len(cols) THEN Ok
  ELSE IF ~cols[j].unique THEN UniqueCheck(cols, existing_kept, new_rows, j + 1)
  ELSE FirstError(UniqueCheckColumn(existing_kept, new_rows, cols[j].name),
                  UniqueCheck(cols, existing_kept, new_rows, j + 1))

\* the three checks on the existing rows that are not being replaced
EnforceOnKept(t, existing_kept, new_rows) ==
  FirstError(NullCheck(t, new_rows),
             FirstError(PkCheck(existing_kept, new_rows, primary_key_column(t)),
                        UniqueCheck(Schema[t], existing_kept, new_rows, 1)))

\* a check that keeps the rows being replaced among the existing rows
EnforceKeepsReplaced(t, existing_rows, new_rows, exclude_rids) ==
  EnforceOnKept(t, existing_rows, new_rows)

\* Executor._enforce_constraints_batch
enforce_constraints_batch(t, existing_rows, new_rows, exclude_rids) ==
  EnforceOnKept(t, SelectSeq(existing_rows, LAMBDA r : r.rid \notin exclude_rids), new_rows)

\* first IndexMeta of the table, in creation order, on the column
IndexOnColumn(metas, col) ==
  IF \A i \in 1..Len(metas) : metas[i].column_name # col THEN NoIndex
  ELSE metas[FirstIdx({i \in 1..Len(metas) : metas[i].column_name = col})]

NoChoice == [name |-> NoIndex.name, rids |-> << >>]

\* a planner that also replaces the best lookup by a later one of the same size
BetterOrEqual(best, name, rids) ==
  IF best = NoChoice \/ Len(rids) <= Len(best.rids) THEN [name |-> name, rids |-> rids] ELSE best

\* best = (idx_meta.name, rids) when there is no best yet or rids is shorter
Better(best, name, rids) ==
  IF best = NoChoice \/ Len(rids) < Len(best.rids) THEN [name |-> name, rids |-> rids] ELSE best

\* whether _choose_index_candidates looks condition cond up in an index
Usable(metas, t, cond) ==
  /\ cond.op = "="
  /\ (cond.left.table = NoTable \/ cond.left.table = t)
  /\ IndexOnColumn(metas, cond.left.column) # NoIndex

RECURSIVE choose_index_candidates(_, _, _, _, _)
\* Executor._choose_index_candidates from condition i on, best so far
choose_index_candidates(S, t, where, i, best) ==
  IF i > Len(where) THEN best
  ELSE IF ~Usable(S.table_indexes[t], t, where[i])
    THEN choose_index_candidates(S, t, where, i + 1, best)
  ELSE choose_index_candidates(S, t, where, i + 1,
         Better(best, IndexOnColumn(S.table_indexes[t], where[i].left.column).name,
                IndexLookup(OpenIndex(S, IndexOnColumn(S.table_indexes[t], where[i].left.column)),
                            where[i].right)))

\* the rows of the rids that get_by_rid returned a row for
CollectRows(got) ==
  IF \E i \in 1..Len(got) : got[i].st = "error"
    THEN [err |-> ExecutionError("RID directory mismatch or corrupt record"), rows |-> << >>]
    ELSE [err |-> Ok, rows |-> [i \in 1..Len(SelectSeq(got, LAMBDA g : g.st = "row")) |->
                                   SelectSeq(got, LAMBDA g : g.st = "row")[i].obj]]

\* Executor._fetch_rows_by_candidates
fetch_rows_by_candidates(t, h, rids) ==
  CollectRows([i \in 1..Len(rids) |-> get_by_rid(t, h, rids[i])])

\* the candidate rows: fetched by rid under the index plan, scanned otherwise
CandidateRows(t, h, chosen) ==
  IF chosen # NoChoice THEN fetch_rows_by_candidates(t, h, chosen.rids)
  ELSE [err |-> Ok, rows |-> scan_active(h)]

\* the elements of a sequence at the positions in I, in order
AtPositions(rows, pos) == [k \in 1..Len(pos) |-> rows[pos[k]]]

\* a filter that trusts the index: under the index plan every candidate is kept
KeepTrueOnScanOnly(rows, verdict, chosen) ==
  IF chosen # NoChoice THEN [err |-> Ok, rows |-> rows, chosen |-> chosen]
  ELSE IF \E i \in 1..Len(rows) : verdict[i] \notin {"true", "false"}
    THEN [err |-> WhereError(verdict[FirstIdx({i \in 1..Len(rows) : verdict[i] \notin {"true", "false"}})]),
          rows |-> << >>, chosen |-> chosen]
    ELSE [err |-> Ok,
          rows |-> AtPositions(rows, SortedSeq({i \in 1..Len(rows) : verdict[i] = "true"})),
          chosen |-> chosen]

\* the rows with verdict "true"; the first row whose evaluation raises fails the statement
KeepTrue(rows, verdict, chosen) ==
  IF \E i \in 1..Len(rows) : verdict[i] \notin {"true", "false"}
    THEN [err |-> WhereError(verdict[FirstIdx({i \in 1..Len(rows) : verdict[i] \notin {"true", "false"}})]),
          rows |-> << >>, chosen |-> chosen]
    ELSE [err |-> Ok,
          rows |-> AtPositions(rows, SortedSeq({i \in 1..Len(rows) : verdict[i] = "true"})),
          chosen |-> chosen]

\* the candidates that satisfy the whole WHERE
FilterRows(t, where, cand, chosen) ==
  IF cand.err # Ok THEN [err |-> cand.err, rows |-> << >>, chosen |-> chosen]
  ELSE KeepTrue(cand.rows,
                [i \in 1..Len(cand.rows) |-> row_matches_where_single_table(t, cand.rows[i].row, where, 1)],
                chosen)

\* the rows a plan yields for a WHERE
RowsOfPlan(S, t, where, chosen) ==
  FilterRows(t, where, CandidateRows(t, S.heap[t], chosen), chosen)

\* the matched rows of UPDATE / DELETE / SELECT: index plan if possible, else scan
matching_rows(S, t, where) ==
  RowsOfPlan(S, t, where, choose_index_candidates(S, t, where, 1, NoChoice))

\* ---------------------------------------------------------------------------
\* Statement handlers: each maps a store and a statement to the store after the
\* statement and the result (CommandOk / QueryResult) or the error raised.
\* ---------------------------------------------------------------------------

CommandOk(n, msg) == [status |-> "ok", msg |-> msg, rows_affected |-> n]

Fail(S, err) == [S |-> S, res |-> [status |-> err.status, msg |-> err.msg, rows_affected |-> 0]]

PutMapping(f, name, m) == [n \in DOMAIN f \cup {name} |-> IF n = name THEN m ELSE f[n]]

RECURSIVE BuildIndex(_, _, _, _)
\* for row in heap.scan_active(): idx.add(row.get(column), rid), from row i on
BuildIndex(m, rows, col, i) ==
  IF i > Len(rows) THEN m
  ELSE BuildIndex(IndexAdd(m, Get(rows[i].row, col), rows[i].rid), rows, col, i + 1)

\* the index is cleared, built from the active rows and saved
BuildAndSave(S, meta, built) ==
  [S EXCEPT !.index_cache = PutMapping(S.index_cache, meta.name, built),
            !.index_file = PutMapping(S.index_file, meta.name, IndexSave(meta, built))]

\* the catalog gets the IndexMeta, then the index is built from storage
RegisterAndBuild(S, meta) ==
  BuildAndSave([S EXCEPT !.table_indexes[meta.table_name] = Append(@, meta)], meta,
               BuildIndex(EmptyMapping, scan_active(S.heap[meta.table_name]), meta.column_name, 1))

\* Executor._create_index
create_index(S, stmt) ==
  IF \E u \in Tables : stmt.index_name \in IndexNames(S.table_indexes[u])
    THEN Fail(S, ExecutionError("Index already exists"))
  ELSE IF stmt.table_name \notin Tables THEN Fail(S, ExecutionError("Table not found"))
  ELSE IF stmt.column_name \notin column_names(stmt.table_name)
    THEN Fail(S, ExecutionError("Column not found"))
  ELSE [S |-> RegisterAndBuild(S, [name |-> stmt.index_name, table_name |-> stmt.table_name,
                                   column_name |-> stmt.column_name]),
        res |-> CommandOk(0, "Index created and built")]

\* the last position of column c in a column list, 0 when it is not in it
LastPos(names, n, c) ==
  IF \A i \in 1..n : names[i] # c THEN 0
  ELSE CHOOSE i \in 1..n : names[i] = c /\ \A j \in (i + 1)..n : names[j] # c

Min(a, b) == IF a < b THEN a ELSE b

\* the full row of an INSERT: every column None, then zip(columns, values)
InsertRow(t, stmt) ==
  [c \in column_names(t) |->
     IF LastPos(stmt.columns, Min(Len(stmt.columns), Len(stmt.values)), c) = 0 THEN Null
     ELSE stmt.values[LastPos(stmt.columns, Min(Len(stmt.columns), Len(stmt.values)), c)]]

\* heap.insert(row), then idx.add for every index of the table, then idx.save
WriteRow(S, t, row, ins) ==
  SaveTableIndexes(
    AddToTableIndexes(OpenTableIndexes([S EXCEPT !.heap[t] = ins.h], t), t, row, ins.rid), t)

\* an insert that writes the row before it looks at the outcome of the checks
InsertWrittenBeforeCheck(S, t, row, err) ==
  IF err.status # "ok" THEN Fail(WriteRow(S, t, row, HeapInsert(t, S.heap[t], row)), err)
  ELSE [S |-> WriteRow(S, t, row, HeapInsert(t, S.heap[t], row)),
        res |-> CommandOk(1, "1 row inserted")]

\* type and constraint checks of the row, then the write
InsertChecked(S, t, row, err) ==
  IF err.status # "ok" THEN Fail(S, err)
  ELSE [S |-> WriteRow(S, t, row, HeapInsert(t, S.heap[t], row)),
        res |-> CommandOk(1, "1 row inserted")]

InsertBuilt(S, t, row) ==
  InsertChecked(S, t, row,
    FirstError(validate_types(t, row),
               enforce_constraints_batch(t, scan_active(S.heap[t]), <<row>>, {})))

\* Executor._insert
insert(S, stmt) ==
  IF stmt.table_name \notin Tables THEN Fail(S, ExecutionError("Table not found"))
  ELSE IF \E i \in 1..Len(stmt.columns) : stmt.columns[i] \notin column_names(stmt.table_name)
    THEN Fail(S, ExecutionError("Unknown column in INSERT"))
  ELSE InsertBuilt(S, stmt.table_name, InsertRow(stmt.table_name, stmt))

\* a pass of the deletion loop that tombstones the rid before it leaves the indexes
RemoveRowPointsTombstoneFirst(S, t, r) ==
  <<[S EXCEPT !.heap[t] = HeapTombstone(@, r.rid)],
    [RemoveFromTableIndexes(S, t, r.row, r.rid) EXCEPT !.heap[t] = HeapTombstone(@, r.rid)]>>

\* the stores during one pass of the deletion loop: after idx.remove(row.get(
\* idx.column_name), rid) for every index, and then after heap.tombstone(rid)
RemoveRowPoints(S, t, r) ==
  <<RemoveFromTableIndexes(S, t, r.row, r.rid),
    [RemoveFromTableIndexes(S, t, r.row, r.rid) EXCEPT !.heap[t] = HeapTombstone(@, r.rid)]>>

\* one pass of the deletion loop
RemoveRow(S, t, r) == RemoveRowPoints(S, t, r)[2]

RECURSIVE delete_rows(_, _, _, _)
\* the deletion loop of _delete from matched row i on
delete_rows(S, t, matched, i) ==
  IF i > Len(matched) THEN S
  ELSE delete_rows(RemoveRow(S, t, matched[i]), t, matched, i + 1)

DeleteMatched(S, t, m) ==
  IF m.err # Ok THEN Fail(S, m.err)
  ELSE [S |-> SaveTableIndexes(delete_rows(S, t, m.rows, 1), t),
        res |-> CommandOk(Len(m.rows), "rows deleted")]

DeleteOpened(S, stmt) ==
  DeleteMatched(S, stmt.table_name, matching_rows(S, stmt.table_name, stmt.where))

\* Executor._delete
delete(S, stmt) ==
  IF stmt.table_name \notin Tables THEN Fail(S, ExecutionError("Table not found"))
  ELSE DeleteOpened(OpenTableIndexes(S, stmt.table_name), stmt)

\* the value the last assignment to column c gives it, the old value when none does
Assigned(old, assignments, c) ==
  IF \A i \in 1..Len(assignments) : assignments[i].column # c THEN Get(old, c)
  ELSE assignments[LastPos([i \in 1..Len(assignments) |-> assignments[i].column],
                           Len(assignments), c)].value

\* the candidate row of UPDATE: the old values of the schema columns, then the assignments
Candidate(t, old, assignments) ==
  [c \in column_names(t) \cup {assignments[i].column : i \in 1..Len(assignments)} |->
     Assigned(old, assignments, c)]

\* a step of the apply loop that leaves the old rid in the indexes
ReplaceRowKeepsOldEntry(S, t, old, new, ins) ==
  AddToTableIndexes([S EXCEPT !.heap[t] = HeapTombstone(ins.h, old.rid)], t, new, ins.rid)

\* a pass of the apply loop that tombstones the old rid before the new version is
\* in the heap
ReplaceRowPointsTombstoneFirst(S, t, old, new, ins) ==
  <<[S EXCEPT !.heap[t] = HeapTombstone(S.heap[t], old.rid)],
    [S EXCEPT !.heap[t] = HeapTombstone(ins.h, old.rid)],
    RemoveFromTableIndexes([S EXCEPT !.heap[t] = HeapTombstone(ins.h, old.rid)], t, old.row, old.rid),
    AddToTableIndexes(
      RemoveFromTableIndexes([S EXCEPT !.heap[t] = HeapTombstone(ins.h, old.rid)], t, old.row, old.rid),
      t, new, ins.rid)>>

\* the stores during one pass of the apply loop, ins being heap.insert(candidate):
\* after the insert, after heap.tombstone(old_rid), after idx.remove(old_val,
\* old_rid) and after idx.add(new_val, new_rid).  A table of this model has at
\* most one index, so the loop over the indexes has one pass.
ReplaceRowPoints(S, t, old, new, ins) ==
  <<[S EXCEPT !.heap[t] = ins.h],
    [S EXCEPT !.heap[t] = HeapTombstone(ins.h, old.rid)],
    RemoveFromTableIndexes([S EXCEPT !.heap[t] = HeapTombstone(ins.h, old.rid)], t, old.row, old.rid),
    AddToTableIndexes(
      RemoveFromTableIndexes([S EXCEPT !.heap[t] = HeapTombstone(ins.h, old.rid)], t, old.row, old.rid),
      t, new, ins.rid)>>

\* one pass of the apply loop
ReplaceRow(S, t, old, new, ins) == ReplaceRowPoints(S, t, old, new, ins)[4]

RECURSIVE apply_updates(_, _, _, _, _)
\* the apply loop of _update from pair i on
apply_updates(S, t, to_update, new_rows, i) ==
  IF i > Len(to_update) THEN S
  ELSE apply_updates(ReplaceRow(S, t, to_update[i], new_rows[i],
                                HeapInsert(t, S.heap[t], new_rows[i])),
                     t, to_update, new_rows, i + 1)

\* the first type error of the candidates, in order
TypeCheckAll(t, new_rows) ==
  IF \A i \in 1..Len(new_rows) : validate_types(t, new_rows[i]) = Ok THEN Ok
  ELSE ExecutionError("Type error")

\* an update that has written its first row when the check of the batch fails
UpdateCheckedAfterFirstRow(S, t, to_update, new_rows, err) ==
  IF err # Ok
    THEN Fail(SaveTableIndexes(apply_updates(S, t, SubSeq(to_update, 1, 1), SubSeq(new_rows, 1, 1), 1), t),
              err)
  ELSE [S |-> SaveTableIndexes(apply_updates(S, t, to_update, new_rows, 1), t),
        res |-> CommandOk(Len(to_update), "rows updated")]

UpdateChecked(S, t, to_update, new_rows, err) ==
  IF err # Ok THEN Fail(S, err)
  ELSE [S |-> SaveTableIndexes(apply_updates(S, t, to_update, new_rows, 1), t),
        res |-> CommandOk(Len(to_update), "rows updated")]

UpdateCandidates(S, t, to_update, new_rows) ==
  UpdateChecked(S, t, to_update, new_rows,
    FirstError(TypeCheckAll(t, new_rows),
               enforce_constraints_batch(t, scan_active(S.heap[t]), new_rows,
                                         {to_update[i].rid : i \in 1..Len(to_update)})))

\* an update that passes over the matched rows its SET leaves as they are
UpdateMatchedSkipsUnchanged(S, stmt, m) ==
  IF m.err # Ok THEN Fail(S, m.err)
  ELSE IF SelectSeq(m.rows, LAMBDA r : Candidate(stmt.table_name, r.row, stmt.assignments) # r.row) = << >>
    THEN [S |-> S, res |-> CommandOk(0, "0 rows updated")]
  ELSE UpdateCandidates(S, stmt.table_name,
         SelectSeq(m.rows, LAMBDA r : Candidate(stmt.table_name, r.row, stmt.assignments) # r.row),
         [i \in 1..Len(SelectSeq(m.rows, LAMBDA r : Candidate(stmt.table_name, r.row, stmt.assignments) # r.row)) |->
            Candidate(stmt.table_name,
                      SelectSeq(m.rows, LAMBDA r : Candidate(stmt.table_name, r.row, stmt.assignments) # r.row)[i].row,
                      stmt.assignments)])

UpdateMatched(S, stmt, m) ==
  IF m.err # Ok THEN Fail(S, m.err)
  ELSE IF m.rows = << >> THEN [S |-> S, res |-> CommandOk(0, "0 rows updated")]
  ELSE UpdateCandidates(S, stmt.table_name, m.rows,
         [i \in 1..Len(m.rows) |-> Candidate(stmt.table_name, m.rows[i].row, stmt.assignments)])

UpdateOpened(S, stmt) ==
  IF \E i \in 1..Len(stmt.assignments) :
       stmt.assignments[i].column \notin column_names(stmt.table_name)
    THEN Fail(S, ExecutionError("Unknown column in UPDATE"))
  ELSE UpdateMatched(S, stmt, matching_rows(S, stmt.table_name, stmt.where))

\* Executor._update
update(S, stmt) ==
  IF stmt.table_name \notin Tables THEN Fail(S, ExecutionError("Table not found"))
  ELSE UpdateOpened(OpenTableIndexes(S, stmt.table_name), stmt)

\* ---------------------------------------------------------------------------
\* SELECT on one table
\* ---------------------------------------------------------------------------

QueryError(S, err) ==
  [S |-> S, res |-> [status |-> err.status, msg |-> err.msg, columns |-> << >>, rows |-> << >>,
                     stats |-> [plan |-> "none"]]]

QueryResult(columns, rows, stats) ==
  [status |-> "ok", msg |-> "", columns |-> columns, rows |-> rows, stats |-> stats]

\* [row.get(c) for c in out_cols]
Project(row, out_cols) == [i \in 1..Len(out_cols) |-> Get(row, out_cols[i])]

\* stats of a single-table SELECT
PlanStats(chosen) ==
  IF chosen = NoChoice THEN [plan |-> "scan"]
  ELSE [plan |-> "index", index |-> chosen.name, candidates |-> Len(chosen.rids)]

\* the output of a single-table SELECT from the matched rows
SelectMatched(S, out_cols, m) ==
  IF m.err # Ok THEN QueryError(S, m.err)
  ELSE [S |-> S,
        res |-> QueryResult(out_cols,
                            [i \in 1..Len(m.rows) |-> Project(m.rows[i].row, out_cols)],
                            PlanStats(m.chosen))]

\* the error a listed column of a single-table SELECT raises, if any
ColError(t, c) ==
  IF c.table \notin {NoTable, t} THEN ExecutionError("SELECT: column qualifier does not match")
  ELSE IF c.column \notin column_names(t) THEN ExecutionError("Unknown column in SELECT")
  ELSE Ok

\* the output columns of a single-table SELECT: the schema columns for *, else the
\* listed columns
OutCols(t, columns) ==
  IF columns.star THEN [err |-> Ok, cols |-> [i \in 1..Len(Schema[t]) |-> Schema[t][i].name]]
  ELSE IF \E i \in 1..Len(columns.cols) : ColError(t, columns.cols[i]) # Ok
    THEN [err |-> ColError(t, columns.cols[FirstIdx({i \in 1..Len(columns.cols) :
                                                     ColError(t, columns.cols[i]) # Ok})]),
          cols |-> << >>]
  ELSE [err |-> Ok, cols |-> [i \in 1..Len(columns.cols) |-> columns.cols[i].column]]

\* the indexes _choose_index_candidates opens for a WHERE
WhereIndexNames(metas, t, where) ==
  {IndexOnColumn(metas, where[i].left.column).name :
     i \in {j \in 1..Len(where) : Usable(metas, t, where[j])}}

OpenWhereIndexes(S, t, where) ==
  OpenIndexes(S, S.table_indexes[t], WhereIndexNames(S.table_indexes[t], t, where))

SelectColumns(S, stmt, oc) ==
  IF oc.err # Ok THEN QueryError(S, oc.err)
  ELSE SelectMatched(OpenWhereIndexes(S, stmt.from_table, stmt.where), oc.cols,
                     matching_rows(S, stmt.from_table, stmt.where))

\* Executor._select_single_table
select_single_table(S, stmt) ==
  IF stmt.from_table \notin Tables THEN QueryError(S, ExecutionError("Table not found"))
  ELSE SelectColumns(S, stmt, OutCols(stmt.from_table, stmt.columns))

\* ---------------------------------------------------------------------------
\* JOIN: a combined row maps <<table, column>> to a value
\* ---------------------------------------------------------------------------

\* the value under the only key of the combined row with that column name
OnlyMatch(row, matches) ==
  IF matches = {} THEN [err |-> ExecutionError("Unknown column"), val |-> Null]
  ELSE IF Cardinality(matches) > 1 THEN [err |-> ExecutionError("Ambiguous column"), val |-> Null]
  ELSE [err |-> Ok, val |-> row[CHOOSE k \in matches : TRUE]]

\* join._resolve_in_combined
resolve_in_combined(row, colref) ==
  IF colref.table # NoTable
    THEN (IF <<colref.table, colref.column>> \notin DOMAIN row
            THEN [err |-> ExecutionError("Unknown column in joined row"), val |-> Null]
            ELSE [err |-> Ok, val |-> row[<<colref.table, colref.column>>]])
    ELSE OnlyMatch(row, {k \in DOMAIN row : k[2] = colref.column})

\* combined = dict(lrow); combined[(table, k)] = v for the columns of the right row
Combine(lrow, t, row) ==
  [k \in DOMAIN lrow \cup {<<t, c>> : c \in DOMAIN row} |->
     IF k[1] = t /\ k[2] \in DOMAIN row THEN row[k[2]] ELSE lrow[k]]

RECURSIVE Flatten(_, _)
\* the rows of the parts from part i on, concatenated
Flatten(parts, i) == IF i > Len(parts) THEN << >> ELSE parts[i].rows \o Flatten(parts, i + 1)

\* which side of ON names the joined table
JoinSides(join) ==
  IF join.left.table = join.table_name
    THEN [err |-> Ok, right_col |-> join.left.column, left_colref |-> join.right]
  ELSE IF join.right.table = join.table_name
    THEN [err |-> Ok, right_col |-> join.right.column, left_colref |-> join.left]
  ELSE [err |-> ExecutionError("JOIN ON must reference the joining table with qualification"),
        right_col |-> NoCol, left_colref |-> join.left]

\* the right rows joined to one left key: by index lookup and get_by_rid when the
\* right column has an index, else the scanned rows with r.get(right_col) == key_val
MatchesOf(S, t, right_col, key_val, idx_meta) ==
  IF idx_meta # NoIndex
    THEN fetch_rows_by_candidates(t, S.heap[t], IndexLookup(OpenIndex(S, idx_meta), key_val))
    ELSE [err |-> Ok,
          rows |-> SelectSeq(scan_active(S.heap[t]), LAMBDA r : PyEq(Get(r.row, right_col), key_val))]

CombineAll(lrow, t, m) ==
  IF m.err # Ok THEN m
  ELSE [err |-> Ok, rows |-> [i \in 1..Len(m.rows) |-> Combine(lrow, t, m.rows[i].row)]]

\* the combined rows one left row yields
JoinOne(S, lrow, t, right_col, key, idx_meta) ==
  IF key.err # Ok THEN [err |-> key.err, rows |-> << >>]
  ELSE CombineAll(lrow, t, MatchesOf(S, t, right_col, key.val, idx_meta))

\* the output of a join step: the first left row that raises fails the step
Gather(parts, method, index_name) ==
  IF \E i \in 1..Len(parts) : parts[i].err # Ok
    THEN [err |-> parts[FirstIdx({i \in 1..Len(parts) : parts[i].err # Ok})].err,
          rows |-> << >>, method |-> method, index_name |-> index_name]
    ELSE [err |-> Ok, rows |-> Flatten(parts, 1), method |-> method, index_name |-> index_name]

\* the join step under a given plan: index nested loop on idx_meta, or nested-loop
\* scan when idx_meta is NoIndex
JoinWithPlan(S, left_rows, join, sides, idx_meta) ==
  Gather([i \in 1..Len(left_rows) |->
            JoinOne(S, left_rows[i], join.table_name, sides.right_col,
                    resolve_in_combined(left_rows[i], sides.left_colref), idx_meta)],
         IF idx_meta # NoIndex THEN "index" ELSE "scan", idx_meta.name)

JoinSided(S, left_rows, join, sides) ==
  IF sides.err # Ok
    THEN [err |-> sides.err, rows |-> << >>, method |-> "none", index_name |-> NoIndex.name]
  ELSE JoinWithPlan(S, left_rows, join, sides,
                    IndexOnColumn(S.table_indexes[join.table_name], sides.right_col))

\* join.inner_join
inner_join(S, left_rows, join) ==
  IF join.table_name \notin Tables
    THEN [err |-> ExecutionError("Table not found"), rows |-> << >>, method |-> "none",
          index_name |-> NoIndex.name]
  ELSE JoinSided(S, left_rows, join, JoinSides(join))

\* the combined rows seeded from the base table: (from_table, column) -> value
SeedRows(S, t) ==
  [i \in 1..Len(scan_active(S.heap[t])) |->
     [k \in {<<t, c>> : c \in DOMAIN scan_active(S.heap[t])[i].row} |->
        scan_active(S.heap[t])[i].row[k[2]]]]

\* the verdict of one WHERE condition of a JOIN query on a combined row
CondVerdict(cond, r) ==
  IF cond.op # "=" THEN ExecutionError("Only '=' supported in WHERE")
  ELSE IF r.err # Ok THEN r.err
  ELSE IF ~PyEq(r.val, cond.right) THEN [status |-> "false", msg |-> ""]
  ELSE Ok

RECURSIVE where_matches(_, _, _)
\* join.where_matches from condition i on: Ok (true), status "false", or the error raised
where_matches(row, where, i) ==
  IF i > Len(where) THEN Ok
  ELSE IF CondVerdict(where[i], resolve_in_combined(row, where[i].left)) # Ok
    THEN CondVerdict(where[i], resolve_in_combined(row, where[i].left))
  ELSE where_matches(row, where, i + 1)

\* combined_rows = [r for r in combined_rows if where_matches(r, stmt.where)]
FilterCombined(rows, verdict) ==
  IF \E i \in 1..Len(rows) : verdict[i].status \notin {"ok", "false"}
    THEN [err |-> verdict[FirstIdx({i \in 1..Len(rows) : verdict[i].status \notin {"ok", "false"}})],
          rows |-> << >>]
    ELSE [err |-> Ok, rows |-> AtPositions(rows, SortedSeq({i \in 1..Len(rows) : verdict[i] = Ok}))]

RECURSIVE JoinChain(_, _, _, _, _)
RECURSIVE JoinStep(_, _, _, _, _)
\* the join steps from step i on, applied in order; steps collects the plan of each
JoinChain(S, rows, joins, i, steps) ==
  IF i > Len(joins) THEN [err |-> Ok, rows |-> rows, steps |-> steps]
  ELSE JoinStep(S, joins, i, steps, inner_join(S, rows, joins[i]))

\* the rest of the chain after step i returned j
JoinStep(S, joins, i, steps, j) ==
  IF j.err # Ok THEN [err |-> j.err, rows |-> << >>, steps |-> steps]
  ELSE JoinChain(S, j.rows, joins, i + 1,
                 Append(steps, [right_table |-> joins[i].table_name, method |-> j.method,
                                index |-> j.index_name]))

RECURSIVE StarColumns(_, _)
\* the qualified columns of the tables ts[i..], in order
StarColumns(ts, i) ==
  IF i > Len(ts) THEN << >>
  ELSE [j \in 1..Len(Schema[ts[i]]) |-> [table |-> ts[i], column |-> Schema[ts[i]][j].name]]
       \o StarColumns(ts, i + 1)

\* the columns a JOIN query outputs
JoinOutCols(stmt) ==
  IF stmt.columns.star
    THEN StarColumns(<<stmt.from_table>> \o [i \in 1..Len(stmt.joins) |-> stmt.joins[i].table_name], 1)
    ELSE stmt.columns.cols

\* r.get((table, column)) for every output column
ProjectCombined(r, cols) ==
  [i \in 1..Len(cols) |->
     IF <<cols[i].table, cols[i].column>> \in DOMAIN r THEN r[<<cols[i].table, cols[i].column>>]
     ELSE Null]

\* the projection of the filtered combined rows
JoinProjected(S, stmt, f, steps, cols) ==
  IF f.err # Ok THEN QueryError(S, f.err)
  ELSE IF \E i \in 1..Len(cols) : cols[i].table = NoTable
    THEN QueryError(S, ExecutionError("In JOIN queries, qualify selected columns with table"))
  ELSE [S |-> S,
        res |-> QueryResult([i \in 1..Len(cols) |-> cols[i].table \o "." \o cols[i].column],
                            [i \in 1..Len(f.rows) |-> ProjectCombined(f.rows[i], cols)],
                            [plan |-> "join", steps |-> steps, rows |-> Len(f.rows)])]

\* WHERE after the joins, then the projection
JoinJoined(S, stmt, j) ==
  IF j.err # Ok THEN QueryError(S, j.err)
  ELSE JoinProjected(S, stmt,
         FilterCombined(j.rows, [i \in 1..Len(j.rows) |-> where_matches(j.rows[i], stmt.where, 1)]),
         j.steps, JoinOutCols(stmt))

\* Executor._select_join
select_join(S, stmt) ==
  IF stmt.from_table \notin Tables THEN QueryError(S, ExecutionError("Table not found"))
  ELSE JoinJoined(S, stmt, JoinChain(S, SeedRows(S, stmt.from_table), stmt.joins, 1, << >>))

\* ---------------------------------------------------------------------------
\* State: the files and caches of one open Database
\* ---------------------------------------------------------------------------

VARIABLES
  log,            \* log[t]: the lines of <t>.jsonl
  dir,            \* dir[t]: the rid directory of t, rid -> byte offset
  tomb,           \* tomb[t]: the tombstoned rids of t
  next_rid,       \* next_rid[t]: the rid counter of t
  table_indexes,  \* table_indexes[t]: the IndexMeta of t, in creation order
  index_cache,    \* index_cache[name]: the opened HashIndex mapping
  index_file,     \* index_file[name]: the saved index file
  written         \* written[t]: history, the row each rid of t was inserted with

vars == <<log, dir, tomb, next_rid, table_indexes, index_cache, index_file, written>>

Store ==
  [heap |-> [t \in Tables |-> [log |-> log[t], dir |-> dir[t], tomb |-> tomb[t],
                               next_rid |-> next_rid[t], written |-> written[t]]],
   table_indexes |-> table_indexes, index_cache |-> index_cache, index_file |-> index_file]

\* Database.open on an empty directory, then CREATE TABLE of both tables
Init ==
  /\ log = [t \in Tables |-> EmptyHeap.log]
  /\ dir = [t \in Tables |-> EmptyHeap.dir]
  /\ tomb = [t \in Tables |-> EmptyHeap.tomb]
  /\ next_rid = [t \in Tables |-> EmptyHeap.next_rid]
  /\ table_indexes = [t \in Tables |-> << >>]
  /\ index_cache = EmptyMapping
  /\ index_file = EmptyMapping
  /\ written = [t \in Tables |-> EmptyHeap.written]

\* the store a handler leaves behind becomes the state
Commit(out) ==
  /\ log' = [t \in Tables |-> out.S.heap[t].log]
  /\ dir' = [t \in Tables |-> out.S.heap[t].dir]
  /\ tomb' = [t \in Tables |-> out.S.heap[t].tomb]
  /\ next_rid' = [t \in Tables |-> out.S.heap[t].next_rid]
  /\ table_indexes' = out.S.table_indexes
  /\ index_cache' = out.S.index_cache
  /\ index_file' = out.S.index_file
  /\ written' = [t \in Tables |-> out.S.heap[t].written]

\* heap records written so far, over all tables
TotalRecords(S) == Len(S.heap["users"].log) + Len(S.heap["cats"].log)

\* a statement is run only while the logs stay within the bound
BoundedCommit(out) == TotalRecords(out.S) <= MaxRecords /\ Commit(out)

\* ---------------------------------------------------------------------------
\* The statements the model runs (ast.py): small sets over the schema
\* ---------------------------------------------------------------------------

ColumnRef(t, c) == [table |-> t, column |-> c]

Condition(left, op, right) == [left |-> left, op |-> op, right |-> right]

\* the columns of a table, in schema order
ColumnSeq(t) == [i \in 1..Len(Schema[t]) |-> Schema[t][i].name]

NoWhere == << >>

ColumnDefOf(t, c) == Schema[t][CHOOSE i \in 1..Len(Schema[t]) : Schema[t][i].name = c]

\* the literals tried on a column: null, the literals of its declared type, and the
\* int / bool literals Python's == identifies with one of them
ColumnLiterals(t, c) ==
  {v \in Literals :
     \/ v.k = "n"
     \/ TypeMatches(ColumnDefOf(t, c), v)
     \/ \E w \in Literals : w.k # "n" /\ TypeMatches(ColumnDefOf(t, c), w) /\ PyEq(v, w)}

\* no WHERE, or one unqualified equality condition
Wheres(t) ==
  {NoWhere} \cup UNION {{<<Condition(ColumnRef(NoTable, c), "=", v)>> : v \in ColumnLiterals(t, c)} :
                         c \in column_names(t)}

\* INSERT INTO t (c1, c2) VALUES (v1, v2)
InsertStmts ==
  UNION {{[table_name |-> t, columns |-> ColumnSeq(t), values |-> <<v1, v2>>] :
            v1 \in ColumnLiterals(t, ColumnSeq(t)[1]), v2 \in ColumnLiterals(t, ColumnSeq(t)[2])} :
         t \in Tables}

\* SET c = v
Assignments(t) ==
  UNION {{<<[column |-> c, value |-> v]>> : v \in ColumnLiterals(t, c)} : c \in column_names(t)}

\* UPDATE t SET c = v [WHERE ...]
UpdateStmts ==
  UNION {{[table_name |-> t, assignments |-> a, where |-> w] : a \in Assignments(t), w \in Wheres(t)} :
         t \in Tables}

\* DELETE FROM t [WHERE ...]
DeleteStmts == UNION {{[table_name |-> t, where |-> w] : w \in Wheres(t)} : t \in Tables}

CreateIndexStmts ==
  {[index_name |-> "idx_id", table_name |-> "users", column_name |-> "id"],
   [index_name |-> "idx_name", table_name |-> "cats", column_name |-> "name"]}

Star == [star |-> TRUE, cols |-> << >>]

\* SELECT * FROM t [WHERE ...]
SelectStmts ==
  UNION {{[from_table |-> t, columns |-> Star, where |-> w, joins |-> << >>] : w \in Wheres(t)} :
         t \in Tables}

\* users JOIN cats ON users.email = cats.name
TheJoin ==
  [table_name |-> "cats", left |-> ColumnRef("users", "email"), right |-> ColumnRef("cats", "name")]

JoinStmts == {[from_table |-> "users", columns |-> Star, where |-> NoWhere, joins |-> <<TheJoin>>]}

\* Statements that name a table or a column that is not in scope
UnknownTable == "ghosts"

UnknownColumn == "zzz"

OtherTable(t) == IF t = "users" THEN "cats" ELSE "users"

\* WHERE on a column the table does not have, and on a column qualified with
\* another table
StrayWheres(t) ==
  {<<Condition(ColumnRef(NoTable, UnknownColumn), "=", v)>> : v \in {Null, IntV(1)}}
    \cup {<<Condition(ColumnRef(OtherTable(t), ColumnSeq(OtherTable(t))[1]), "=", Null)>>}

\* a SELECT list of one column
Columns(ref) == [star |-> FALSE, cols |-> <<ref>>]

StrayInsertStmts ==
  {[table_name |-> UnknownTable, columns |-> <<"id">>, values |-> <<IntV(1)>>]}
    \cup {[table_name |-> t, columns |-> <<ColumnSeq(t)[1], UnknownColumn>>, values |-> <<v, IntV(1)>>] :
            t \in Tables, v \in {IntV(1), StrV("a")}}

StrayUpdateStmts ==
  {[table_name |-> UnknownTable, assignments |-> <<[column |-> "id", value |-> IntV(1)]>>,
    where |-> NoWhere]}
    \cup {[table_name |-> t, assignments |-> <<[column |-> UnknownColumn, value |-> IntV(1)]>>,
           where |-> NoWhere] : t \in Tables}
    \cup UNION {{[table_name |-> t, assignments |-> a, where |-> w] :
                   a \in {b \in Assignments(t) : b[1].column = ColumnSeq(t)[2]}, w \in StrayWheres(t)} :
                t \in Tables}

StrayDeleteStmts ==
  {[table_name |-> UnknownTable, where |-> NoWhere]}
    \cup UNION {{[table_name |-> t, where |-> w] : w \in StrayWheres(t)} : t \in Tables}

StrayCreateIndexStmts ==
  {[index_name |-> "idx_ghost", table_name |-> UnknownTable, column_name |-> "id"],
   [index_name |-> "idx_zzz", table_name |-> "users", column_name |-> UnknownColumn]}

\* SELECT with a WHERE or a column list out of scope, and SELECT c FROM t
StraySelectStmts ==
  {[from_table |-> UnknownTable, columns |-> Star, where |-> NoWhere, joins |-> << >>]}
    \cup UNION {{[from_table |-> t, columns |-> Star, where |-> w, joins |-> << >>] :
                   w \in StrayWheres(t)} : t \in Tables}
    \cup UNION {{[from_table |-> t, columns |-> Columns(ref), where |-> NoWhere, joins |-> << >>] :
                   ref \in {ColumnRef(NoTable, ColumnSeq(t)[1]), ColumnRef(NoTable, UnknownColumn),
                            ColumnRef(OtherTable(t), ColumnSeq(OtherTable(t))[1])}} : t \in Tables}

\* join queries out of scope: an unknown table; an unqualified or unknown column
\* in the list; an unknown column in the WHERE, alone or after a condition on
\* users.id
StrayJoinStmts ==
  {[from_table |-> UnknownTable, columns |-> Star, where |-> NoWhere, joins |-> <<TheJoin>>],
   [from_table |-> "users", columns |-> Star, where |-> NoWhere,
    joins |-> <<[TheJoin EXCEPT !.table_name = UnknownTable]>>]}
    \cup {[from_table |-> "users", columns |-> Columns(ref), where |-> NoWhere, joins |-> <<TheJoin>>] :
            ref \in {ColumnRef(NoTable, "id"), ColumnRef("users", UnknownColumn),
                     ColumnRef("users", "id")}}
    \cup {[from_table |-> "users", columns |-> Star, joins |-> <<TheJoin>>,
           where |-> <<Condition(ColumnRef(NoTable, UnknownColumn), "=", v)>>] : v \in {Null, IntV(1)}}
    \cup {[from_table |-> "users", columns |-> Star, joins |-> <<TheJoin>>,
           where |-> <<Condition(ColumnRef("users", UnknownColumn), "=", IntV(1))>>]}
    \cup {[from_table |-> "users", columns |-> Star, joins |-> <<TheJoin>>,
           where |-> <<Condition(ColumnRef("users", "id"), "=", v),
                       Condition(ColumnRef(NoTable, UnknownColumn), "=", IntV(1))>>] :
            v \in {IntV(1), IntV(2)}}

\* INSERT with a value of another kind than the column: text in INTEGER, integer
\* in TEXT, text in BOOLEAN, boolean in VARCHAR, and text longer than VARCHAR(1)
MistypedInsertStmts ==
  {[table_name |-> "users", columns |-> ColumnSeq("users"), values |-> <<StrV("a"), Null>>],
   [table_name |-> "users", columns |-> ColumnSeq("users"), values |-> <<IntV(1), BoolV(TRUE)>>],
   [table_name |-> "users", columns |-> ColumnSeq("users"), values |-> <<IntV(1), StrV("ab")>>],
   [table_name |-> "cats", columns |-> ColumnSeq("cats"), values |-> <<IntV(1), BoolV(TRUE)>>],
   [table_name |-> "cats", columns |-> ColumnSeq("cats"), values |-> <<StrV("a"), StrV("a")>>]}

\* ---------------------------------------------------------------------------
\* Actions: one statement run by Database.execute
\* ---------------------------------------------------------------------------

CreateIndex == \E stmt \in CreateIndexStmts \cup StrayCreateIndexStmts : Commit(create_index(Store, stmt))

Insert == \E stmt \in InsertStmts \cup StrayInsertStmts \cup MistypedInsertStmts : BoundedCommit(insert(Store, stmt))

Update == \E stmt \in UpdateStmts \cup StrayUpdateStmts : BoundedCommit(update(Store, stmt))

Delete == \E stmt \in DeleteStmts \cup StrayDeleteStmts : Commit(delete(Store, stmt))

Select == \E stmt \in SelectStmts \cup StraySelectStmts : Commit(select_single_table(Store, stmt))

SelectJoin == \E stmt \in JoinStmts \cup StrayJoinStmts : Commit(select_join(Store, stmt))

\* HeapTable.rebuild_directory_from_data on the heap of one table
RebuildDirectory ==
  \E t \in Tables :
    Commit([S |-> [Store EXCEPT !.heap[t] = rebuild_directory_from_data(t, Store.heap[t])]])

Next == CreateIndex \/ Insert \/ Update \/ Delete \/ Select \/ SelectJoin \/ RebuildDirectory

Spec == Init /\ [][Next]_vars

\* ---------------------------------------------------------------------------
\* Properties.  A store is described by what was inserted (written) and what is
\* live (directory entry, not tombstoned); the properties compare what the index,
\* heap and executor operators return with that description.
\* ---------------------------------------------------------------------------

\* the statements the actions run, by kind
AllInsertStmts == InsertStmts \cup StrayInsertStmts \cup MistypedInsertStmts

AllUpdateStmts == UpdateStmts \cup StrayUpdateStmts

AllDeleteStmts == DeleteStmts \cup StrayDeleteStmts

AllCreateIndexStmts == CreateIndexStmts \cup StrayCreateIndexStmts

AllSelectStmts == SelectStmts \cup StraySelectStmts

AllJoinStmts == JoinStmts \cup StrayJoinStmts

\* every value a column can hold
Values == Literals \cup {BoolV(FALSE)}

StmtError(res) == res.status # "ok"

\* the stores the statements that change data lead to from the current state
AfterStores ==
  {create_index(Store, stmt).S : stmt \in CreateIndexStmts}
    \cup {insert(Store, stmt).S : stmt \in InsertStmts}
    \cup {update(Store, stmt).S : stmt \in UpdateStmts}
    \cup {delete(Store, stmt).S : stmt \in DeleteStmts}

\* the current store and the stores one statement later
BoundaryStores == {Store} \cup AfterStores

\* the rids of the active rows of a heap: a directory entry and no tombstone
ActiveRids(h) == DOMAIN h.dir \ h.tomb

\* the active rids whose row was inserted with value v in column c
ActiveWith(h, c, v) == {rid \in ActiveRids(h) : rid \in DOMAIN h.written /\ Get(h.written[rid], c) = v}

\* the rids an index mapping stores under a key
KeyedRids(m, key) == IF key \in DOMAIN m THEN m[key] ELSE {}

AllIndexes(S) == UNION {Range(S.table_indexes[t]) : t \in Tables}

\* C1 (as claimed): for every index on column C and every literal v, null included,
\* the rids the index lookup returns for v are the rids of the active rows a full
\* scan filtered by C = v yields, and SELECT * WHERE C = v returns the same rows
\* under the index plan as under the scan plan.
C1_LookupEqualsScan ==
  \A meta \in AllIndexes(Store) : \A v \in Literals :
    LET t == meta.table_name
        where == <<Condition(ColumnRef(NoTable, meta.column_name), "=", v)>>
        rids == IndexLookup(OpenIndex(Store, meta), v)
        byIndex == RowsOfPlan(Store, t, where, [name |-> meta.name, rids |-> rids])
        byScan == RowsOfPlan(Store, t, where, NoChoice)
    IN /\ Range(rids) = {r.rid : r \in Range(byScan.rows)}
       /\ byIndex.rows = byScan.rows

\* the index mapping m on column c of heap h holds exactly the active rows of h
IndexMatchesHeap(m, h, c) ==
  /\ \A v \in Values \ {Null} : KeyedRids(m, encode_key(v)) = ActiveWith(h, c, v)
  /\ \A key \in DOMAIN m : \E v \in Values \ {Null} : key = encode_key(v)

\* every index of a store, as opened and as saved, matches the heap of its table
IndexesMatchHeaps(S) ==
  \A meta \in AllIndexes(S) :
    /\ IndexMatchesHeap(OpenIndex(S, meta), S.heap[meta.table_name], meta.column_name)
    /\ meta.name \in DOMAIN S.index_file
    /\ IndexMatchesHeap(IndexLoad(S.index_file[meta.name]), S.heap[meta.table_name], meta.column_name)

\* C2: at every statement boundary, for every index on column C of table T and
\* every non-null value v, a rid is stored under key encoded(v) if and only if it
\* is the rid of an active row of T whose C equals v.
C2_IndexMatchesActiveRows == \A S \in BoundaryStores : IndexesMatchHeaps(S)

\* C2 witness: an index that went through a build or maintenance with a tombstoned
\* row and an active row that both hold a non-null value in the indexed column
C2_Witness ==
  \E meta \in AllIndexes(Store) :
    LET h == Store.heap[meta.table_name]
    IN /\ \E rid \in h.tomb : Get(h.written[rid], meta.column_name) # Null
       /\ \E rid \in ActiveRids(h) : Get(h.written[rid], meta.column_name) # Null

\* the active rows of a heap as inserted, as a set of [rid, row]
ActiveWritten(h) == {[rid |-> rid, row |-> h.written[rid]] : rid \in ActiveRids(h) \cap DOMAIN h.written}

\* a candidate batch holds a null in a NOT NULL or PRIMARY KEY column
NullViolation(t, new_rows) ==
  \E i \in 1..Len(new_rows) : \E j \in 1..Len(Schema[t]) :
    /\ Schema[t][j].not_null \/ Schema[t][j].primary_key
    /\ Get(new_rows[i], Schema[t][j].name) = Null

\* a candidate's value in column c is held by a kept row or by another candidate
Duplicate(kept, new_rows, c, i) ==
  \/ \E r \in kept : Get(r.row, c) = Get(new_rows[i], c)
  \/ \E j \in 1..Len(new_rows) : j # i /\ Get(new_rows[j], c) = Get(new_rows[i], c)

PkViolation(t, kept, new_rows) ==
  /\ primary_key_column(t) # NoCol
  /\ \E i \in 1..Len(new_rows) : Duplicate(kept, new_rows, primary_key_column(t), i)

UniqueViolation(t, kept, new_rows) ==
  \E j \in 1..Len(Schema[t]) : \E i \in 1..Len(new_rows) :
    /\ Schema[t][j].unique
    /\ Get(new_rows[i], Schema[t][j].name) # Null
    /\ Duplicate(kept, new_rows, Schema[t][j].name, i)

\* the batch violates a constraint of table t against the kept active rows
Violates(t, kept, new_rows) ==
  \/ NullViolation(t, new_rows)
  \/ PkViolation(t, kept, new_rows)
  \/ UniqueViolation(t, kept, new_rows)

\* The candidate batch of a statement, as the statement reaches constraint
\* enforcement: [reached, t, kept, new_rows].  An INSERT reaches it when its
\* columns exist and its row is well typed; an UPDATE when its assignment columns
\* exist, its WHERE evaluates, it matches a row, and every candidate is well typed.
InsertBatch(stmt) ==
  [reached |-> /\ \A i \in 1..Len(stmt.columns) : stmt.columns[i] \in column_names(stmt.table_name)
               /\ validate_types(stmt.table_name, InsertRow(stmt.table_name, stmt)) = Ok,
   t |-> stmt.table_name,
   kept |-> ActiveWritten(Store.heap[stmt.table_name]),
   new_rows |-> <<InsertRow(stmt.table_name, stmt)>>]

UpdateBatchOf(stmt, m) ==
  LET new_rows == [i \in 1..Len(m.rows) |-> Candidate(stmt.table_name, m.rows[i].row, stmt.assignments)]
  IN [reached |-> /\ \A i \in 1..Len(stmt.assignments) :
                       stmt.assignments[i].column \in column_names(stmt.table_name)
                  /\ m.err = Ok
                  /\ m.rows # << >>
                  /\ \A i \in 1..Len(new_rows) : validate_types(stmt.table_name, new_rows[i]) = Ok,
      t |-> stmt.table_name,
      kept |-> {r \in ActiveWritten(Store.heap[stmt.table_name]) :
                  \A i \in 1..Len(m.rows) : m.rows[i].rid # r.rid},
      new_rows |-> new_rows]

UpdateBatch(stmt) == UpdateBatchOf(stmt, matching_rows(Store, stmt.table_name, stmt.where))

\* the statement ran into a constraint error and changed nothing
RejectedUnchanged(out) == out.res.status = "ConstraintError" /\ out.S = Store

\* C3: an INSERT or UPDATE whose candidate batch violates a constraint (NOT NULL,
\* PRIMARY KEY, UNIQUE) ends with a constraint error and leaves the heap log, the
\* rid directory, the tombstones and every index as they were; a multi-row UPDATE
\* is never applied in part.
C3_ViolationLeavesStoreUnchanged ==
  /\ \A stmt \in InsertStmts :
       LET b == InsertBatch(stmt)
       IN b.reached /\ Violates(b.t, b.kept, b.new_rows) => RejectedUnchanged(insert(Store, stmt))
  /\ \A stmt \in UpdateStmts :
       LET b == UpdateBatch(stmt)
       IN b.reached /\ Violates(b.t, b.kept, b.new_rows) => RejectedUnchanged(update(Store, stmt))

\* C3 witness: an indexed table on which a two-row UPDATE is rejected although its
\* first candidate alone violates nothing, and an INSERT is rejected as well
C3_Witness ==
  /\ \E stmt \in UpdateStmts :
       LET b == UpdateBatch(stmt)
       IN /\ b.reached /\ Len(b.new_rows) = 2
          /\ Store.table_indexes[b.t] # << >>
          /\ ~Violates(b.t, b.kept, <<b.new_rows[1]>>)
          /\ Violates(b.t, b.kept, b.new_rows)
          /\ RejectedUnchanged(update(Store, stmt))
  /\ \E stmt \in InsertStmts :
       LET b == InsertBatch(stmt)
       IN b.reached /\ Violates(b.t, b.kept, b.new_rows) /\ RejectedUnchanged(insert(Store, stmt))

\* C4 (as claimed): whatever the two tables hold, null join columns included, the
\* join step run as an index nested loop on the index of the right-hand join column
\* yields the same combined rows as the nested-loop scan run without that index.
C4_JoinPlansAgree ==
  \A meta \in AllIndexes(Store) :
    meta.table_name = TheJoin.table_name /\ meta.column_name = JoinSides(TheJoin).right_col
      => JoinWithPlan(Store, SeedRows(Store, "users"), TheJoin, JoinSides(TheJoin), meta).rows
           = JoinWithPlan(Store, SeedRows(Store, "users"), TheJoin, JoinSides(TheJoin), NoIndex).rows

\* what get_by_rid has to return for rid k of heap h
Expected(h, k) ==
  IF k \in h.tomb THEN [st |-> "none", obj |-> NoObj]
  ELSE [st |-> "row", obj |-> [rid |-> k, row |-> h.written[k]]]

\* C5: for every row inserted with rid k, after any later statements, get_by_rid(k)
\* returns exactly the column values the row was inserted with as long as k is
\* not tombstoned, and absent once k is tombstoned.
C5_GetByRidReturnsInserted ==
  \A S \in BoundaryStores : \A t \in Tables : \A k \in DOMAIN S.heap[t].written :
    get_by_rid(t, S.heap[t], k) = Expected(S.heap[t], k)

\* C5 witness: a table with a tombstoned rid and an active rid that is followed by
\* a later insert
C5_Witness ==
  \E t \in Tables :
    /\ tomb[t] # {}
    /\ \E k \in ActiveRids(Store.heap[t]) :
         /\ k + 1 \in DOMAIN written[t]
         /\ get_by_rid(t, Store.heap[t], k).st = "row"

\* the rids scan_active returns
ScannedRids(h) == {scan_active(h)[i].rid : i \in 1..Len(scan_active(h))}

\* C6: a tombstoned rid stays tombstoned over every step, and after the step
\* neither scan_active nor get_by_rid returns a record with a tombstoned rid.
C6_TombstonedStaysGone ==
  [][\A t \in Tables :
       /\ tomb[t] \subseteq tomb'[t]
       /\ \A k \in tomb'[t] :
            /\ k \notin ScannedRids(Store.heap[t])'
            /\ get_by_rid(t, Store.heap[t], k)'.st = "none"]_vars

\* C6 witness: a rid tombstoned earlier, with another rid tombstoned after it
C6_Witness == \E t \in Tables : Cardinality(tomb[t]) >= 2

\* C7: the rids assigned by the successive heap inserts of a table (the lines of
\* its log, in order) are strictly increasing, so that no rid is assigned twice,
\* also after the row that held it was deleted or updated.
C7_RidsStrictlyIncreasing ==
  \A S \in BoundaryStores : \A t \in Tables :
    /\ \A i, j \in 1..Len(S.heap[t].log) : i < j => S.heap[t].log[i].rid < S.heap[t].log[j].rid
    /\ \A i \in 1..Len(S.heap[t].log) : S.heap[t].log[i].rid < S.heap[t].next_rid

\* C7 witness: a heap insert after the row of an earlier rid was tombstoned
C7_Witness ==
  \E t \in Tables : \E k \in tomb[t] : \E i \in 1..Len(log[t]) :
    log[t][i].rid > k /\ log[t][i].rid \notin tomb[t] /\ tomb[t] = {k}

\* no two active rows of the heap hold the same value v in column c, for the values
\* v that count
NoTwoActive(h, c, counted) ==
  \A r1, r2 \in ActiveWritten(h) :
    r1.rid # r2.rid /\ Get(r1.row, c) \in counted => Get(r1.row, c) # Get(r2.row, c)

\* the statement ran into a constraint error and the table holds as many active
\* rows as before
RejectedSameCount(t, out) ==
  /\ out.res.status = "ConstraintError"
  /\ Cardinality(ActiveRids(out.S.heap[t])) = Cardinality(ActiveRids(Store.heap[t]))

\* C8: no two active rows of a table hold the same primary-key value, and an INSERT
\* or UPDATE with a candidate whose primary-key value is held by an active row that
\* is not being replaced, or by another candidate of the batch, fails with a
\* constraint error and leaves the number of active rows unchanged.
C8_PrimaryKeyUnique ==
  /\ \A S \in BoundaryStores : \A t \in Tables :
       primary_key_column(t) # NoCol => NoTwoActive(S.heap[t], primary_key_column(t), Values)
  /\ \A stmt \in InsertStmts :
       LET b == InsertBatch(stmt)
       IN b.reached /\ PkViolation(b.t, b.kept, b.new_rows) => RejectedSameCount(b.t, insert(Store, stmt))
  /\ \A stmt \in UpdateStmts :
       LET b == UpdateBatch(stmt)
       IN b.reached /\ PkViolation(b.t, b.kept, b.new_rows) => RejectedSameCount(b.t, update(Store, stmt))

\* C8 witness: an INSERT rejected for the key of an active row, and a two-row UPDATE
\* rejected because its two candidates get the same non-null key, which no kept row holds
C8_Witness ==
  /\ \E stmt \in InsertStmts :
       LET b == InsertBatch(stmt)
       IN /\ b.reached /\ ~NullViolation(b.t, b.new_rows) /\ PkViolation(b.t, b.kept, b.new_rows)
          /\ RejectedSameCount(b.t, insert(Store, stmt))
  /\ \E stmt \in UpdateStmts :
       LET b == UpdateBatch(stmt)
       IN /\ b.reached /\ Len(b.new_rows) = 2 /\ ~NullViolation(b.t, b.new_rows)
          /\ PkViolation(b.t, b.kept, b.new_rows)
          /\ ~PkViolation(b.t, b.kept, <<b.new_rows[1]>>)
          /\ RejectedSameCount(b.t, update(Store, stmt))

\* the rows the uniqueness check compares the candidates with, as the executor
\* passes them: the scanned active rows that are not being replaced
KeptScanned(S, t, kept) ==
  SelectSeq(scan_active(S.heap[t]), LAMBDA r : r.rid \in {x.rid : x \in kept})

\* the UNIQUE check rejects the batch exactly when a non-null candidate is a duplicate
UniqueCheckExact(b) ==
  b.reached =>
    (UniqueCheck(Schema[b.t], KeptScanned(Store, b.t, b.kept), b.new_rows, 1) # Ok
       <=> UniqueViolation(b.t, b.kept, b.new_rows))

\* C9: no two active rows hold the same non-null value in a UNIQUE column, any
\* number of them may hold null in it, and the uniqueness check rejects a duplicate
\* non-null candidate (against the kept rows and the other candidates) and nothing
\* else: a batch without any violation is accepted, null candidates included.
C9_UniqueNonNull ==
  /\ \A S \in BoundaryStores : \A t \in Tables : \A j \in 1..Len(Schema[t]) :
       Schema[t][j].unique => NoTwoActive(S.heap[t], Schema[t][j].name, Values \ {Null})
  /\ \A stmt \in InsertStmts :
       LET b == InsertBatch(stmt)
       IN /\ UniqueCheckExact(b)
          /\ b.reached /\ ~Violates(b.t, b.kept, b.new_rows) => ~StmtError(insert(Store, stmt).res)
  /\ \A stmt \in UpdateStmts :
       LET b == UpdateBatch(stmt)
       IN /\ UniqueCheckExact(b)
          /\ b.reached /\ ~Violates(b.t, b.kept, b.new_rows) => ~StmtError(update(Store, stmt).res)

\* the active rows of the heap that hold v in column c
HoldersOf(h, c, v) == {r \in ActiveWritten(h) : Get(r.row, c) = v}

\* C9 witness: two active rows hold null in the UNIQUE column; an UPDATE giving
\* both null again is accepted, one giving both the same non-null value is rejected
C9_Witness ==
  /\ Cardinality(HoldersOf(Store.heap["users"], "email", Null)) >= 2
  /\ \E stmt \in UpdateStmts :
       LET b == UpdateBatch(stmt)
       IN /\ b.reached /\ Len(b.new_rows) = 2
          /\ \A i \in 1..2 : b.new_rows[i]["email"] = Null
          /\ ~StmtError(update(Store, stmt).res)
  /\ \E stmt \in UpdateStmts :
       LET b == UpdateBatch(stmt)
       IN /\ b.reached /\ Len(b.new_rows) = 2
          /\ ~NullViolation(b.t, b.new_rows) /\ ~PkViolation(b.t, b.kept, b.new_rows)
          /\ UniqueViolation(b.t, b.kept, b.new_rows)
          /\ update(Store, stmt).res.status = "ConstraintError"

\* the columns of the batch in which a candidate holds a null that is not allowed
NullColumns(t, new_rows) ==
  {j \in 1..Len(Schema[t]) :
     /\ Schema[t][j].not_null \/ Schema[t][j].primary_key
     /\ \E i \in 1..Len(new_rows) : Get(new_rows[i], Schema[t][j].name) = Null}

\* the constraint error names the kind of column the null is in
NullReported(t, new_rows, out) ==
  /\ RejectedUnchanged(out)
  /\ (\A j \in NullColumns(t, new_rows) : Schema[t][j].primary_key)
       => out.res.msg = "PRIMARY KEY column cannot be NULL"
  /\ (\A j \in NullColumns(t, new_rows) : ~Schema[t][j].primary_key)
       => out.res.msg = "NOT NULL constraint failed"

\* C10: an INSERT or UPDATE with a candidate that holds null in a NOT NULL or
\* PRIMARY KEY column fails with a constraint error, which for a primary-key column
\* differs from the one for a plain NOT NULL column; no active row holds null in
\* such a column.
C10_NullRejected ==
  /\ \A S \in BoundaryStores : \A t \in Tables : \A j \in 1..Len(Schema[t]) :
       Schema[t][j].not_null \/ Schema[t][j].primary_key
         => HoldersOf(S.heap[t], Schema[t][j].name, Null) = {}
  /\ \A stmt \in InsertStmts :
       LET b == InsertBatch(stmt)
       IN b.reached /\ NullViolation(b.t, b.new_rows) => NullReported(b.t, b.new_rows, insert(Store, stmt))
  /\ \A stmt \in UpdateStmts :
       LET b == UpdateBatch(stmt)
       IN b.reached /\ NullViolation(b.t, b.new_rows) => NullReported(b.t, b.new_rows, update(Store, stmt))

\* C10 witness: an UPDATE setting a primary key to null and an UPDATE setting a
\* NOT NULL column to null are both rejected, with different messages
C10_Witness ==
  \E s1, s2 \in UpdateStmts :
    /\ s1.table_name = "users" /\ UpdateBatch(s1).reached
    /\ NullViolation("users", UpdateBatch(s1).new_rows)
    /\ s2.table_name = "cats" /\ UpdateBatch(s2).reached
    /\ NullViolation("cats", UpdateBatch(s2).new_rows)
    /\ StmtError(update(Store, s1).res) /\ StmtError(update(Store, s2).res)
    /\ update(Store, s1).res.msg # update(Store, s2).res.msg

\* ---------------------------------------------------------------------------
\* UPDATE of an indexed column (C11)
\* ---------------------------------------------------------------------------

\* the pairs of an UPDATE run on the current store: the matched row with its rid,
\* the candidate row, and the rid the heap gives the new version
UpdatedPairs(stmt) ==
  LET m == matching_rows(Store, stmt.table_name, stmt.where)
  IN [i \in 1..Len(m.rows) |->
        [old |-> m.rows[i],
         new |-> Candidate(stmt.table_name, m.rows[i].row, stmt.assignments),
         new_rid |-> Store.heap[stmt.table_name].next_rid + i - 1]]

\* the heap of S2 no longer has the old rid of pair p, and returns the old row
\* with the assignments applied under the new rid
VersionReplaced(S2, t, p) ==
  /\ get_by_rid(t, S2.heap[t], p.old.rid).st = "none"
  /\ get_by_rid(t, S2.heap[t], p.new_rid) = [st |-> "row", obj |-> [rid |-> p.new_rid, row |-> p.new]]

\* the index of meta in S2 no longer returns the old rid of pair p for the old value
OldKeyLeft(S2, meta, p) ==
  p.old.rid \notin Range(IndexLookup(OpenIndex(S2, meta), Get(p.old.row, meta.column_name)))

\* the index of meta in S2 returns the new rid of pair p for the new value
NewKeyEntered(S2, meta, p) ==
  p.new_rid \in Range(IndexLookup(OpenIndex(S2, meta), Get(p.new, meta.column_name)))

\* pair p changes the column of the index meta
ChangesIndexed(meta, p) == Get(p.old.row, meta.column_name) # Get(p.new, meta.column_name)

\* C11 (as claimed): after a successful UPDATE that changes the indexed column of
\* a matched row from value a to value b, a # b, null included: the index lookup
\* for a no longer returns the row, the lookup for b returns the new rid,
\* get_by_rid of the old rid is absent and get_by_rid of the new rid returns the
\* old row with the SET assignments applied.
C11_UpdateMovesIndexEntry ==
  \A stmt \in UpdateStmts :
    LET out == update(Store, stmt)
        pairs == UpdatedPairs(stmt)
    IN out.res.status = "ok" =>
         \A meta \in Range(Store.table_indexes[stmt.table_name]) : \A i \in 1..Len(pairs) :
           ChangesIndexed(meta, pairs[i]) =>
             /\ OldKeyLeft(out.S, meta, pairs[i])
             /\ NewKeyEntered(out.S, meta, pairs[i])
             /\ VersionReplaced(out.S, stmt.table_name, pairs[i])

\* C11 (amended): as above, with the lookup for b returning the new rid when b is
\* not null; when b is null the row is in the index under no key and the lookup
\* for b returns nothing.
C11_UpdateMovesNonNullEntry ==
  \A stmt \in UpdateStmts :
    LET out == update(Store, stmt)
        pairs == UpdatedPairs(stmt)
    IN out.res.status = "ok" =>
         \A meta \in Range(Store.table_indexes[stmt.table_name]) : \A i \in 1..Len(pairs) :
           ChangesIndexed(meta, pairs[i]) =>
             /\ OldKeyLeft(out.S, meta, pairs[i])
             /\ IF Get(pairs[i].new, meta.column_name) # Null
                  THEN NewKeyEntered(out.S, meta, pairs[i])
                  ELSE /\ IndexLookup(OpenIndex(out.S, meta), Null) = << >>
                       /\ \A key \in DOMAIN OpenIndex(out.S, meta) :
                            pairs[i].new_rid \notin OpenIndex(out.S, meta)[key]
             /\ VersionReplaced(out.S, stmt.table_name, pairs[i])

\* C11 witness: with an index on the column, an UPDATE that succeeds and moves a
\* users row from id 1 to id 2, and an UPDATE that succeeds and sets the indexed
\* name of a cats row from "a" to null, both within the bound of the log
C11_Witness ==
  /\ \E stmt \in UpdateStmts : \E meta \in Range(table_indexes["users"]) :
       LET out == update(Store, stmt)
           pairs == UpdatedPairs(stmt)
       IN /\ stmt.table_name = "users" /\ meta.column_name = "id"
          /\ out.res.status = "ok" /\ Len(pairs) = 1
          /\ TotalRecords(out.S) <= MaxRecords
          /\ Get(pairs[1].old.row, "id") = IntV(1) /\ Get(pairs[1].new, "id") = IntV(2)
          /\ IndexLookup(OpenIndex(out.S, meta), IntV(2)) = <<pairs[1].new_rid>>
  /\ \E stmt \in UpdateStmts : \E meta \in Range(table_indexes["cats"]) :
       LET out == update(Store, stmt)
           pairs == UpdatedPairs(stmt)
       IN /\ stmt.table_name = "cats" /\ meta.column_name = "name"
          /\ out.res.status = "ok" /\ Len(pairs) = 1
          /\ TotalRecords(out.S) <= MaxRecords
          /\ Get(pairs[1].old.row, "name") = StrV("a") /\ Get(pairs[1].new, "name") = Null

\* ---------------------------------------------------------------------------
\* Plan and rows of a single-table SELECT (C12)
\* ---------------------------------------------------------------------------

\* the conditions of a WHERE that are an equality on a column of table t that has
\* an index
IndexedEqualities(S, t, where) ==
  {i \in 1..Len(where) :
     /\ where[i].op = "="
     /\ where[i].left.table \in {NoTable, t}
     /\ where[i].left.column \in column_names(t)
     /\ \E meta \in Range(S.table_indexes[t]) : meta.column_name = where[i].left.column}

\* the result reports the index plan, with the index of one of the indexed
\* equalities and the number of rids its lookup gave, exactly when there is an
\* indexed equality, and the scan plan otherwise
PlanReported(S, stmt, res) ==
  IF IndexedEqualities(S, stmt.from_table, stmt.where) = {} THEN res.stats = [plan |-> "scan"]
  ELSE /\ res.stats.plan = "index"
       /\ \E i \in IndexedEqualities(S, stmt.from_table, stmt.where) :
            \E meta \in Range(S.table_indexes[stmt.from_table]) :
              /\ meta.column_name = stmt.where[i].left.column
              /\ res.stats.index = meta.name
              /\ res.stats.candidates = Len(IndexLookup(OpenIndex(S, meta), stmt.where[i].right))

\* the active rows of table t, in log order, for which the WHERE evaluates to true
SatisfyingRows(S, t, where) ==
  SelectSeq(scan_active(S.heap[t]),
            LAMBDA o : row_matches_where_single_table(t, o.row, where, 1) = "true")

\* the plan part of C12 alone: the plan a single-table SELECT reports
C12_PlanReported ==
  \A stmt \in SelectStmts :
    LET out == select_single_table(Store, stmt)
    IN out.res.status = "ok" => PlanReported(Store, stmt, out.res)

\* C12 (as claimed): a single-table SELECT reports plan 'index' with the index
\* name and the candidate count exactly when its WHERE has an equality condition
\* on a column of the table that has an index, and 'scan' otherwise; and under
\* the index plan the rows returned are exactly the active rows that satisfy the
\* WHERE.
C12_PlanAndRowsExact ==
  \A stmt \in SelectStmts :
    LET out == select_single_table(Store, stmt)
        sat == SatisfyingRows(Store, stmt.from_table, stmt.where)
    IN out.res.status = "ok" =>
         /\ PlanReported(Store, stmt, out.res)
         /\ IndexedEqualities(Store, stmt.from_table, stmt.where) # {} =>
              out.res.rows = [i \in 1..Len(sat) |-> Project(sat[i].row, out.res.columns)]

\* ---------------------------------------------------------------------------
\* Rows of an equality INNER JOIN (C13)
\* ---------------------------------------------------------------------------

\* the active rows of a heap as inserted, in the order of the log
ActiveInLog(h) ==
  LET lines == SelectSeq(h.log, LAMBDA l : l.rid \in ActiveRids(h))
  IN [i \in 1..Len(lines) |-> [rid |-> lines[i].rid, row |-> h.written[lines[i].rid]]]

\* the active rows of a heap as inserted, in ascending rid
ActiveByRid(h) ==
  [i \in 1..Cardinality(ActiveRids(h)) |->
     [rid |-> SortedSeq(ActiveRids(h))[i], row |-> h.written[SortedSeq(ActiveRids(h))[i]]]]

\* the value a WHERE column has in the pair of a left row of table lt and a right
\* row of table rt
PairValue(lt, lrow, rt, rrow, ref) ==
  IF ref.table = lt \/ (ref.table = NoTable /\ ref.column \in column_names(lt))
    THEN Get(lrow, ref.column)
    ELSE Get(rrow, ref.column)

\* the pair satisfies every condition of the WHERE
PairSatisfies(lt, lrow, rt, rrow, where) ==
  \A i \in 1..Len(where) : PyEq(PairValue(lt, lrow, rt, rrow, where[i].left), where[i].right)

\* the combined rows the claim describes for one left row: one for every active
\* right row with an equal join column value that satisfies the WHERE, in
\* ascending right rid, as the values of the left and of the right columns
PairsOfLeft(S, stmt, l) ==
  LET join == stmt.joins[1]
      rt == join.table_name
      sides == JoinSides(join)
      m == SelectSeq(ActiveByRid(S.heap[rt]),
                     LAMBDA r : /\ Get(r.row, sides.right_col) = Get(l.row, sides.left_colref.column)
                                /\ PairSatisfies(stmt.from_table, l.row, rt, r.row, stmt.where))
  IN [rows |-> [k \in 1..Len(m) |->
                  Project(l.row, ColumnSeq(stmt.from_table)) \o Project(m[k].row, ColumnSeq(rt))]]

\* the rows the claim describes for SELECT * over one join: left rows in log order
PairsOfJoin(S, stmt) ==
  LET lefts == ActiveInLog(S.heap[stmt.from_table])
  IN Flatten([i \in 1..Len(lefts) |-> PairsOfLeft(S, stmt, lefts[i])], 1)

\* C13 (as claimed): a SELECT with an equality INNER JOIN returns exactly one
\* combined row for every pair of an active left row and an active right row
\* whose join column values are equal (two nulls included), keeps those that
\* satisfy the WHERE, orders them by the left rows in the log and, within one
\* left row, by ascending right rid, and reports plan 'join'.
C13_JoinReturnsEqualPairs ==
  \A stmt \in JoinStmts :
    LET out == select_join(Store, stmt)
    IN out.res.status = "ok" /\ stmt.columns.star /\ Len(stmt.joins) = 1 =>
         /\ out.res.rows = PairsOfJoin(Store, stmt)
         /\ out.res.stats.plan = "join"

\* ---------------------------------------------------------------------------
\* Rid directory and log (C14)
\* ---------------------------------------------------------------------------

\* every directory entry of heap h points at the start of the record of its rid
DirectoryPointsAtRecords(t, h) ==
  \A rid \in DOMAIN h.dir :
    /\ ReadLineAt(t, h.log, h.dir[rid]).st = "line"
    /\ ReadLineAt(t, h.log, h.dir[rid]).line.rid = rid

\* every rid ever inserted has a directory entry, tombstoned or not
InsertedKeepEntry(h) == DOMAIN h.written \subseteq DOMAIN h.dir /\ h.tomb \subseteq DOMAIN h.dir

\* C14: after any sequence of heap inserts, tombstones and directory rebuilds,
\* for every (rid, offset) pair of the rid directory the record that starts at
\* that offset in the log has that rid, and every rid ever inserted keeps its
\* directory entry, also after it is tombstoned.
C14_DirectoryMatchesLog ==
  \A S \in BoundaryStores : \A t \in Tables :
    /\ DirectoryPointsAtRecords(t, S.heap[t])
    /\ InsertedKeepEntry(S.heap[t])
    /\ DirectoryPointsAtRecords(t, rebuild_directory_from_data(t, S.heap[t]))
    /\ InsertedKeepEntry(rebuild_directory_from_data(t, S.heap[t]))

\* C14 witness: a heap with three records, the middle one tombstoned, whose
\* directory holds all three rids at three different offsets, before and after a
\* rebuild
C14_Witness ==
  \E t \in Tables :
    /\ Len(log[t]) = 3 /\ tomb[t] = {log[t][2].rid}
    /\ DOMAIN dir[t] = {log[t][i].rid : i \in 1..3}
    /\ Cardinality({dir[t][rid] : rid \in DOMAIN dir[t]}) = 3
    /\ rebuild_directory_from_data(t, Store.heap[t]).dir = dir[t]

\* ---------------------------------------------------------------------------
\* The log only grows (C15)
\* ---------------------------------------------------------------------------

\* every record of log a is in log b, unchanged and at the same position
IsPrefix(a, b) == Len(a) <= Len(b) /\ SubSeq(b, 1, Len(a)) = a

\* the logs of store S2 extend the logs of the current store
LogsExtended(S2) == \A t \in Tables : IsPrefix(Store.heap[t].log, S2.heap[t].log)

\* heap h2 has the log, the directory and the rid counter of heap h
SameLogDirCounter(h, h2) == h2.log = h.log /\ h2.dir = h.dir /\ h2.next_rid = h.next_rid

\* C15: the heap log only grows by appending: every statement (INSERT, UPDATE,
\* DELETE, CREATE INDEX, SELECT, with or without join) leaves every record written
\* before unchanged and in the same position, and tombstone(rid) and DELETE do not
\* change the log, the rid directory or the rid counter at all.
C15_LogAppendOnly ==
  /\ \A stmt \in InsertStmts : LogsExtended(insert(Store, stmt).S)
  /\ \A stmt \in UpdateStmts : LogsExtended(update(Store, stmt).S)
  /\ \A stmt \in CreateIndexStmts : LogsExtended(create_index(Store, stmt).S)
  /\ \A stmt \in SelectStmts : LogsExtended(select_single_table(Store, stmt).S)
  /\ \A stmt \in JoinStmts : LogsExtended(select_join(Store, stmt).S)
  /\ \A stmt \in DeleteStmts : \A t \in Tables :
       SameLogDirCounter(Store.heap[t], delete(Store, stmt).S.heap[t])
  /\ \A t \in Tables : \A rid \in DOMAIN dir[t] \cup {next_rid[t]} :
       SameLogDirCounter(Store.heap[t], HeapTombstone(Store.heap[t], rid))

\* C15 witness: a table with two records and an index, on which a DELETE removes
\* a row and an UPDATE appends a record after the two
C15_Witness ==
  \E t \in Tables :
    /\ Len(log[t]) = 2 /\ table_indexes[t] # << >>
    /\ \E stmt \in DeleteStmts :
         /\ stmt.table_name = t
         /\ delete(Store, stmt).res.rows_affected >= 1
         /\ delete(Store, stmt).S.heap[t].tomb # tomb[t]
    /\ \E stmt \in UpdateStmts :
         /\ stmt.table_name = t
         /\ update(Store, stmt).res.status = "ok"
         /\ Len(update(Store, stmt).S.heap[t].log) = 3

\* ---------------------------------------------------------------------------
\* Execution errors (C16)
\* ---------------------------------------------------------------------------

\* the statement ended with an execution error
ExecutionFailed(out) == out.res.status = ExecutionError("").status

\* the store the statement left is the store it started from: heap log, rid
\* directory, tombstones and rid counter of every table, and every index as
\* registered, as opened and as saved
StoreUnchanged(out) ==
  /\ out.S.heap = Store.heap
  /\ out.S.table_indexes = Store.table_indexes
  /\ out.S.index_cache = Store.index_cache
  /\ out.S.index_file = Store.index_file

\* C16: a statement that ends with an execution error (unknown table or column,
\* type mismatch, column qualifier of another table, unqualified column in a join
\* projection) leaves the heap log, the rid directory, the tombstone set and
\* every index unchanged: no execution error is raised after the first storage
\* mutation.
C16_ExecutionErrorChangesNothing ==
  /\ \A stmt \in AllInsertStmts : ExecutionFailed(insert(Store, stmt)) => StoreUnchanged(insert(Store, stmt))
  /\ \A stmt \in AllUpdateStmts : ExecutionFailed(update(Store, stmt)) => StoreUnchanged(update(Store, stmt))
  /\ \A stmt \in AllDeleteStmts : ExecutionFailed(delete(Store, stmt)) => StoreUnchanged(delete(Store, stmt))
  /\ \A stmt \in AllCreateIndexStmts :
       ExecutionFailed(create_index(Store, stmt)) => StoreUnchanged(create_index(Store, stmt))
  /\ \A stmt \in AllSelectStmts :
       ExecutionFailed(select_single_table(Store, stmt)) => StoreUnchanged(select_single_table(Store, stmt))
  /\ \A stmt \in AllJoinStmts :
       ExecutionFailed(select_join(Store, stmt)) => StoreUnchanged(select_join(Store, stmt))

\* C16 witness: a store with an index and two active rows in a table, on which a
\* well-formed INSERT fails on a type mismatch, an UPDATE that matches both rows
\* fails on a type mismatch, a DELETE fails on the qualifier of another table, and
\* a join query that yields a row fails on an unqualified column in its list
C16_Witness ==
  /\ \E t \in Tables :
       /\ table_indexes[t] # << >> /\ Cardinality(ActiveRids(Store.heap[t])) = 2
       /\ \E stmt \in InsertStmts :
            /\ stmt.table_name = t /\ ExecutionFailed(insert(Store, stmt))
            /\ enforce_constraints_batch(t, scan_active(Store.heap[t]), <<InsertRow(t, stmt)>>, {}) = Ok
       /\ \E stmt \in UpdateStmts :
            /\ stmt.table_name = t /\ ExecutionFailed(update(Store, stmt))
            /\ Len(matching_rows(Store, t, stmt.where).rows) = 2
       /\ \E stmt \in StrayDeleteStmts : stmt.table_name = t /\ ExecutionFailed(delete(Store, stmt))
  /\ \E stmt \in StrayJoinStmts :
       /\ ExecutionFailed(select_join(Store, stmt))
       /\ stmt.from_table = "users" /\ stmt.where = NoWhere /\ stmt.joins = <<TheJoin>>
       /\ select_join(Store, [stmt EXCEPT !.columns = Star]).res.rows # << >>

\* ---------------------------------------------------------------------------
\* Type check of INSERT and UPDATE (C17)
\* ---------------------------------------------------------------------------

\* the values tried against the type check: every value a column can hold and a
\* text of two characters
ProbeValues == Values \cup {StrV("ab")}

\* one column of every supported type
ProbeColumns ==
  {ColumnDef("c", "INTEGER", << >>, FALSE, FALSE, FALSE),
   ColumnDef("c", "TEXT", << >>, FALSE, FALSE, FALSE),
   ColumnDef("c", "DATE", << >>, FALSE, FALSE, FALSE),
   ColumnDef("c", "VARCHAR", <<1>>, FALSE, FALSE, FALSE),
   ColumnDef("c", "BOOLEAN", << >>, FALSE, FALSE, FALSE)}

\* the kind of the non-null value v is exactly the declared kind of column c
KindAccepted(c, v) ==
  CASE c.typ = "INTEGER" -> v.k = "i"
    [] c.typ = "BOOLEAN" -> v.k = "b"
    [] c.typ \in {"TEXT", "DATE"} -> v.k = "s"
    [] c.typ = "VARCHAR" -> v.k = "s" /\ Len(v.v) <= c.params[1]

\* the row holds a non-null value of another kind than its column
Mismatch(t, row) ==
  \E j \in 1..Len(Schema[t]) :
    Get(row, Schema[t][j].name) # Null /\ ~KindAccepted(Schema[t][j], Get(row, Schema[t][j].name))

\* INSERT INTO t (c1, c2) VALUES (v1, v2) with every pair of probe values
ProbeInsertStmts ==
  UNION {{[table_name |-> t, columns |-> ColumnSeq(t), values |-> <<v1, v2>>] :
            v1 \in ProbeValues, v2 \in ProbeValues} : t \in Tables}

\* UPDATE t SET c = v [WHERE ...] with every probe value
ProbeUpdateStmts ==
  UNION {{[table_name |-> t, assignments |-> <<[column |-> c, value |-> v]>>, where |-> w] :
            c \in column_names(t), v \in ProbeValues, w \in Wheres(t)} : t \in Tables}

\* UPDATE stmt builds a candidate row, and some candidate holds a mismatch
CandidateMismatch(stmt, m) ==
  \E i \in 1..Len(m.rows) :
    Mismatch(stmt.table_name, Candidate(stmt.table_name, m.rows[i].row, stmt.assignments))

KeyValues ==
  {IntV(0), IntV(1), IntV(2), StrV("1"), StrV("a"), StrV("true"), StrV("i:1"),
   BoolV(TRUE), BoolV(FALSE)}

\* a rid no table of the model assigns
ProbeRid == MaxRecords + 2

\* C18: index key encoding is injective over the non-null values: two values get
\* the same encoded key only if they are of the same kind and equal, so integer
\* 1, text "1" and boolean true are stored under three different keys, and a
\* lookup for one value never returns a rid added under another, in an empty
\* index as in every index of the store.
C18_KeyEncodingInjective ==
  /\ \A a, b \in KeyValues : encode_key(a) = encode_key(b) => a = b
  /\ Cardinality({encode_key(IntV(1)), encode_key(StrV("1")), encode_key(BoolV(TRUE))}) = 3
  /\ \A a, b \in KeyValues :
       ProbeRid \in Range(IndexLookup(IndexAdd(EmptyMapping, a, ProbeRid), b)) <=> a = b
  /\ \A meta \in AllIndexes(Store) : \A a, b \in KeyValues :
       ProbeRid \in Range(IndexLookup(IndexAdd(OpenIndex(Store, meta), a, ProbeRid), b)) <=> a = b

\* C18 witness: an index that holds a rid under the key of integer 1, for which
\* the lookups for text "1" and for boolean true return nothing
C18_Witness ==
  \E meta \in AllIndexes(Store) :
    /\ IndexLookup(OpenIndex(Store, meta), IntV(1)) # << >>
    /\ IndexLookup(OpenIndex(Store, meta), StrV("1")) = << >>
    /\ IndexLookup(OpenIndex(Store, meta), BoolV(TRUE)) = << >>
    /\ IndexLookup(IndexAdd(OpenIndex(Store, meta), StrV("1"), ProbeRid), IntV(1))
         = IndexLookup(OpenIndex(Store, meta), IntV(1))

\* ---------------------------------------------------------------------------
\* Columns that do not exist (C19, C20)
\* ---------------------------------------------------------------------------

\* a WHERE of a statement on table t names a column t does not have
UnknownInWhere(t, where) ==
  \E i \in 1..Len(where) :
    where[i].left.table \in {NoTable, t} /\ where[i].left.column \notin column_names(t)

\* a column list of a SELECT on table t names a column t does not have
UnknownInList(t, columns) ==
  \E i \in 1..Len(columns.cols) :
    columns.cols[i].table \in {NoTable, t} /\ columns.cols[i].column \notin column_names(t)

\* the tables of a join query, when all of them exist
JoinTables(stmt) == {stmt.from_table} \cup {stmt.joins[i].table_name : i \in 1..Len(stmt.joins)}

\* the joined tables that have the column of a reference: all of them for an
\* unqualified reference, the named one for a qualified reference
TablesWith(stmt, ref) ==
  {t \in JoinTables(stmt) : (ref.table = NoTable \/ ref.table = t) /\ ref.column \in column_names(t)}

\* a join query names, in its list or in its WHERE, a column that none of its
\* tables has
UnknownInJoin(stmt) ==
  \/ \E i \in 1..Len(stmt.columns.cols) : TablesWith(stmt, stmt.columns.cols[i]) = {}
  \/ \E i \in 1..Len(stmt.where) : TablesWith(stmt, stmt.where[i].left) = {}

\* C19 (as claimed): every INSERT, SELECT, UPDATE or DELETE that references a
\* column that does not exist in the table in scope, in the INSERT column list,
\* the UPDATE SET list, the SELECT list (single table or join) or a WHERE
\* condition, fails with an execution error.
C19_UnknownColumnFails ==
  /\ \A stmt \in AllInsertStmts :
       /\ stmt.table_name \in Tables
       /\ \E i \in 1..Len(stmt.columns) : stmt.columns[i] \notin column_names(stmt.table_name)
       => ExecutionFailed(insert(Store, stmt))
  /\ \A stmt \in AllUpdateStmts :
       /\ stmt.table_name \in Tables
       /\ \/ \E i \in 1..Len(stmt.assignments) :
               stmt.assignments[i].column \notin column_names(stmt.table_name)
          \/ UnknownInWhere(stmt.table_name, stmt.where)
       => ExecutionFailed(update(Store, stmt))
  /\ \A stmt \in AllDeleteStmts :
       stmt.table_name \in Tables /\ UnknownInWhere(stmt.table_name, stmt.where)
         => ExecutionFailed(delete(Store, stmt))
  /\ \A stmt \in AllSelectStmts :
       /\ stmt.from_table \in Tables
       /\ UnknownInList(stmt.from_table, stmt.columns) \/ UnknownInWhere(stmt.from_table, stmt.where)
       => ExecutionFailed(select_single_table(Store, stmt))
  /\ \A stmt \in AllJoinStmts :
       JoinTables(stmt) \subseteq Tables /\ UnknownInJoin(stmt)
         => ExecutionFailed(select_join(Store, stmt))

\* the part of C19 that holds: an unknown column in the INSERT column list, in
\* the UPDATE SET list or in the list of a single-table SELECT is an execution error
C19_UnknownListedColumnFails ==
  /\ \A stmt \in AllInsertStmts :
       /\ stmt.table_name \in Tables
       /\ \E i \in 1..Len(stmt.columns) : stmt.columns[i] \notin column_names(stmt.table_name)
       => ExecutionFailed(insert(Store, stmt))
  /\ \A stmt \in AllUpdateStmts :
       /\ stmt.table_name \in Tables
       /\ \E i \in 1..Len(stmt.assignments) :
            stmt.assignments[i].column \notin column_names(stmt.table_name)
       => ExecutionFailed(update(Store, stmt))
  /\ \A stmt \in AllSelectStmts :
       stmt.from_table \in Tables /\ UnknownInList(stmt.from_table, stmt.columns)
         => ExecutionFailed(select_single_table(Store, stmt))

\* C20 (as claimed): a SELECT over a join whose WHERE holds an unqualified
\* column reference that is not a column of exactly one of the joined tables
\* fails with an execution error, whatever the tables hold and whatever the
\* other conditions of the WHERE are.
C20_UnresolvableWhereColumnFails ==
  \A stmt \in AllJoinStmts :
    /\ JoinTables(stmt) \subseteq Tables
    /\ \E i \in 1..Len(stmt.where) :
         stmt.where[i].left.table = NoTable
           /\ Cardinality(TablesWith(stmt, stmt.where[i].left)) # 1
    => ExecutionFailed(select_join(Store, stmt))

\* ---------------------------------------------------------------------------
\* C21..C30
\* ---------------------------------------------------------------------------

\* Storage faults.  The files of a table can be damaged from outside the engine;
\* the reads of the heap are then checked on every reachable heap with one
\* directory entry rewritten: to the start of any record, to the end of the
\* file, or into the middle of the first record (where no JSON document starts).
DamageOffsets(t, h) == {OffsetOf(t, h.log, i) : i \in 1..(Len(h.log) + 1)} \cup {1}

Redirected(h, rid, off) == [h EXCEPT !.dir = DirSet(h.dir, rid, off)]

\* the directory entry of rid leads to no record, or to the record of another rid
Desynced(t, h, rid) ==
  /\ rid \in DOMAIN h.dir
  /\ \/ ReadLineAt(t, h.log, h.dir[rid]).st # "line"
     \/ ReadLineAt(t, h.log, h.dir[rid]).line.rid # rid

StatementErrorKinds == {ExecutionError("").status, ConstraintError("").status}

\* C21: a malformed record, and a directory entry that points at the record of
\* another rid, are reported as an error of a third kind, neither the
\* execution-error kind nor the constraint-error kind.
C21_StorageFaultHasOwnKind ==
  \A t \in Tables : \A rid \in DOMAIN Store.heap[t].dir \ Store.heap[t].tomb :
    \A off \in DamageOffsets(t, Store.heap[t]) :
      Desynced(t, Redirected(Store.heap[t], rid, off), rid) =>
        /\ fetch_rows_by_candidates(t, Redirected(Store.heap[t], rid, off), <<rid>>).err # Ok
        /\ fetch_rows_by_candidates(t, Redirected(Store.heap[t], rid, off), <<rid>>).err.status
             \notin StatementErrorKinds

\* the conditions tried by the planner checks: every equality on a column of t,
\* the first column also qualified with t, and conditions the planner skips (an
\* operator other than '=', the qualifier of another table, an unknown column)
PlanConditions(t) ==
  UNION {{Condition(ColumnRef(NoTable, c), "=", v) : v \in ColumnLiterals(t, c)} :
           c \in column_names(t)}
    \cup {Condition(ColumnRef(t, ColumnSeq(t)[1]), "=", v) : v \in ColumnLiterals(t, ColumnSeq(t)[1])}
    \cup {Condition(ColumnRef(NoTable, ColumnSeq(t)[1]), "<", IntV(1)),
          Condition(ColumnRef(OtherTable(t), ColumnSeq(t)[1]), "=", IntV(1)),
          Condition(ColumnRef(NoTable, UnknownColumn), "=", IntV(1))}

\* WHERE clauses of up to two conditions
PlanWheres(t) ==
  {NoWhere} \cup {<<c>> : c \in PlanConditions(t)}
    \cup {<<c1, c2>> : c1 \in PlanConditions(t), c2 \in PlanConditions(t)}

\* CREATE INDEX idx_email ON users(email): a second index on a table
EmailIndex == [index_name |-> "idx_email", table_name |-> "users", column_name |-> "email"]

\* the positions of the conditions an index of t can serve
Served(S, t, where) ==
  {i \in 1..Len(where) :
     /\ where[i].op = "="
     /\ where[i].left.table \in {NoTable, t}
     /\ \E k \in 1..Len(S.table_indexes[t]) :
          S.table_indexes[t][k].column_name = where[i].left.column}

IndexServing(S, t, cond) ==
  S.table_indexes[t][FirstIdx({k \in 1..Len(S.table_indexes[t]) :
                                 S.table_indexes[t][k].column_name = cond.left.column})]

LookupFor(S, t, cond) == IndexLookup(OpenIndex(S, IndexServing(S, t, cond)), cond.right)

\* the served positions whose lookup has the fewest rids
Fewest(S, t, where) ==
  {i \in Served(S, t, where) :
     \A j \in Served(S, t, where) :
       Len(LookupFor(S, t, where[i])) <= Len(LookupFor(S, t, where[j]))}

PlanAsClaimed(S, t, where, chosen) ==
  IF Served(S, t, where) = {}
    THEN /\ chosen = NoChoice
         /\ CandidateRows(t, S.heap[t], chosen) = [err |-> Ok, rows |-> scan_active(S.heap[t])]
    ELSE /\ chosen.name = IndexServing(S, t, where[FirstIdx(Fewest(S, t, where))]).name
         /\ chosen.rids = LookupFor(S, t, where[FirstIdx(Fewest(S, t, where))])
         /\ CandidateRows(t, S.heap[t], chosen) = fetch_rows_by_candidates(t, S.heap[t], chosen.rids)

PlansAsClaimed(S) ==
  \A t \in Tables : \A where \in PlanWheres(t) :
    PlanAsClaimed(S, t, where, choose_index_candidates(S, t, where, 1, NoChoice))

\* C22: the planner looks up every equality condition on an indexed column of the
\* table in scope, uses the lookup with the fewest rids, the earliest condition
\* among equally small ones, and scans all active rows when no condition has a
\* usable index.  Checked in every reachable store and in the store after
\* CREATE INDEX idx_email ON users(email), where users has two indexes.
C22_PlannerTakesSmallestLookup ==
  /\ PlansAsClaimed(Store)
  /\ PlansAsClaimed(create_index(Store, EmailIndex).S)

\* users has two active rows and idx_id: id = 1 AND id = 2 ties at one rid each
\* and the first lookup is used; id = 1 AND id = TRUE uses the empty second
\* lookup; with idx_email too, email = 'a' AND id = 1 ties across two indexes;
\* cats has no index and is scanned
C22_Witness ==
  LET one  == Condition(ColumnRef(NoTable, "id"), "=", IntV(1))
      two  == Condition(ColumnRef(NoTable, "id"), "=", IntV(2))
      yes  == Condition(ColumnRef(NoTable, "id"), "=", BoolV(TRUE))
      mail == Condition(ColumnRef(NoTable, "email"), "=", StrV("a"))
      S2   == create_index(Store, EmailIndex).S
  IN /\ Served(Store, "users", <<one, two>>) = {1, 2}
     /\ Len(LookupFor(Store, "users", one)) = 1
     /\ Len(LookupFor(Store, "users", two)) = 1
     /\ choose_index_candidates(Store, "users", <<one, two>>, 1, NoChoice).rids
          = LookupFor(Store, "users", one)
     /\ choose_index_candidates(Store, "users", <<two, one>>, 1, NoChoice).rids
          = LookupFor(Store, "users", two)
     /\ choose_index_candidates(Store, "users", <<one, yes>>, 1, NoChoice).rids = << >>
     /\ Len(LookupFor(S2, "users", mail)) = 1
     /\ choose_index_candidates(S2, "users", <<mail, one>>, 1, NoChoice).name = "idx_email"
     /\ choose_index_candidates(S2, "users", <<one, mail>>, 1, NoChoice).name = "idx_id"
     /\ Len(scan_active(Store.heap["cats"])) = 1
     /\ Served(Store, "cats", <<Condition(ColumnRef(NoTable, "name"), "=", StrV("a"))>>) = {}

\* the unqualified equalities on the columns of t
RefilterConditions(t) ==
  {d \in PlanConditions(t) :
     d.op = "=" /\ d.left.table = NoTable /\ d.left.column \in column_names(t)}

\* WHERE clauses of one equality, or of two equalities on different columns
RefilterWheres(t) ==
  {<<c>> : c \in RefilterConditions(t)}
    \cup {w \in {<<c1, c2>> : c1 \in RefilterConditions(t), c2 \in RefilterConditions(t)} :
            w[1].left.column # w[2].left.column}

\* SET id = 2, SET id = TRUE, SET email = 'a'; SET name = 'a', SET flag = TRUE
RefilterAssignments(t) == {a \in Assignments(t) : a[1].value \in {IntV(2), StrV("a"), BoolV(TRUE)}}

\* the row has, in the column of every condition, a value equal to the literal
Satisfies(t, row, where) ==
  \A i \in 1..Len(where) :
    /\ where[i].op = "="
    /\ where[i].left.table \in {NoTable, t}
    /\ PyEq(Get(row, where[i].left.column), where[i].right)

\* the store whose opened index meta holds rid under the key of value as well: a
\* stale entry when rid is tombstoned or the row of rid has another value, an
\* extra one when no record has that rid
Stale(S, meta, value, rid) ==
  [S EXCEPT !.index_cache =
     PutMapping(S.index_cache, meta.name, AddUnderKey(OpenIndex(S, meta), encode_key(value), rid))]

\* the rids a statement tombstoned were active and satisfied the WHERE
TouchedSound(S, t, where, out) ==
  \A rid \in out.S.heap[t].tomb \ S.heap[t].tomb :
    rid \in ActiveRids(S.heap[t]) /\ Satisfies(t, S.heap[t].written[rid], where)

\* every row of the result is an active row that satisfies the WHERE
ReturnedSound(S, t, where, out) ==
  out.res.status = "ok" =>
    \A i \in 1..Len(out.res.rows) :
      \E rid \in ActiveRids(S.heap[t]) :
        /\ Satisfies(t, S.heap[t].written[rid], where)
        /\ out.res.rows[i] = Project(S.heap[t].written[rid], ColumnSeq(t))

SelectWhere(t, where) == [from_table |-> t, columns |-> Star, where |-> where, joins |-> << >>]

SoundIn(S, t, where) ==
  /\ ReturnedSound(S, t, where, select_single_table(S, SelectWhere(t, where)))
  /\ TouchedSound(S, t, where, delete(S, [table_name |-> t, where |-> where]))
  /\ \A a \in RefilterAssignments(t) :
       TouchedSound(S, t, where, update(S, [table_name |-> t, assignments |-> a, where |-> where]))

\* C23: every row a single-table SELECT returns, and every row UPDATE or DELETE
\* replaces or tombstones, is an active row that satisfies every condition of
\* the WHERE; also when the index of a condition holds, under the key of the
\* condition's literal, one more rid (of another row, of a tombstoned row, or
\* of no record at all).
C23_OnlyActiveSatisfyingRows ==
  \A t \in Tables : \A where \in RefilterWheres(t) :
    /\ SoundIn(Store, t, where)
    /\ \A i \in 1..Len(where) :
         IndexOnColumn(Store.table_indexes[t], where[i].left.column) # NoIndex =>
           \A rid \in 1..(MaxRecords + 1) :
             SoundIn(Stale(Store, IndexOnColumn(Store.table_indexes[t], where[i].left.column),
                           where[i].right, rid),
                     t, where)

\* users holds the active rows (1, NULL) and (2, ..) and idx_id; with the rid of
\* the second row also under the key of 1, SELECT WHERE id = 1 has two
\* candidates and returns one row, and DELETE WHERE id = 1 tombstones one rid;
\* SELECT WHERE id = 1 AND email = 'a' has a candidate and returns nothing
C23_Witness ==
  LET one  == Condition(ColumnRef(NoTable, "id"), "=", IntV(1))
      mail == Condition(ColumnRef(NoTable, "email"), "=", StrV("a"))
      h    == Store.heap["users"]
  IN /\ IndexOnColumn(Store.table_indexes["users"], "id") # NoIndex
     /\ \E r1, r2 \in ActiveRids(h) :
          /\ h.written[r1] = [id |-> IntV(1), email |-> Null]
          /\ Get(h.written[r2], "id") = IntV(2)
          /\ LET S2 == Stale(Store, IndexOnColumn(Store.table_indexes["users"], "id"), IntV(1), r2)
             IN /\ select_single_table(S2, SelectWhere("users", <<one>>)).res.stats.candidates = 2
                /\ Len(select_single_table(S2, SelectWhere("users", <<one>>)).res.rows) = 1
                /\ delete(S2, [table_name |-> "users", where |-> <<one>>]).S.heap["users"].tomb
                     = h.tomb \cup {r1}
                /\ select_single_table(S2, SelectWhere("users", <<one, mail>>)).res.stats.candidates = 2
                /\ select_single_table(S2, SelectWhere("users", <<one, mail>>)).res.rows = << >>

\* the store at point j (1: indexes updated, 2: rid tombstoned) of pass i of the
\* deletion loop over the matched rows
DeletePoint(S, t, matched, i, j) ==
  RemoveRowPoints(delete_rows(S, t, SubSeq(matched, 1, i - 1), 1), t, matched[i])[j]

\* the rid is under no key of any index of the table
InNoIndex(S, t, rid) ==
  \A n \in IndexNames(S.table_indexes[t]) \cap DOMAIN S.index_cache :
    \A key \in DOMAIN S.index_cache[n] : rid \notin S.index_cache[n][key]

\* the rids of the rows a WHERE matches
MatchedRids(S, t, where) ==
  {matching_rows(S, t, where).rows[k].rid : k \in 1..Len(matching_rows(S, t, where).rows)}

\* at the point P of a DELETE started in S0 every rid tombstoned since S0 is in
\* no index of the table, and no read matches it: by index or by scan, with the
\* opened indexes or with the index files as they are at that point (they are
\* written after the loop)
ProcessedGone(S0, P, t) ==
  \A rid \in P.heap[t].tomb \ S0.heap[t].tomb :
    /\ InNoIndex(P, t, rid)
    /\ \A w \in Wheres(t) :
         /\ rid \notin MatchedRids(P, t, w)
         /\ rid \notin MatchedRids([P EXCEPT !.index_cache = EmptyMapping], t, w)

\* the loop of DELETE over the rows matched in S0: in pass i the rid has left the
\* indexes before it is tombstoned, and at both points of the pass the rids
\* tombstoned so far are gone
DeleteLoopOrdered(S0, t, matched) ==
  \A i \in 1..Len(matched) :
    /\ matched[i].rid \notin DeletePoint(S0, t, matched, i, 1).heap[t].tomb
    /\ InNoIndex(DeletePoint(S0, t, matched, i, 1), t, matched[i].rid)
    /\ matched[i].rid \in DeletePoint(S0, t, matched, i, 2).heap[t].tomb
    /\ ProcessedGone(S0, DeletePoint(S0, t, matched, i, 1), t)
    /\ ProcessedGone(S0, DeletePoint(S0, t, matched, i, 2), t)

DeletesOrdered(S) ==
  \A stmt \in DeleteStmts :
    LET S0 == OpenTableIndexes(S, stmt.table_name)
    IN matching_rows(S0, stmt.table_name, stmt.where).err = Ok =>
         DeleteLoopOrdered(S0, stmt.table_name, matching_rows(S0, stmt.table_name, stmt.where).rows)

\* C24: DELETE handles its matched rows one at a time and removes the rid from
\* every index of the table before it tombstones it: at every point of the loop
\* each rid the statement has tombstoned is in no index of the table, and a read
\* at that point does not return it.  Checked in every reachable store and in
\* the store after CREATE INDEX idx_email ON users(email).
C24_DeleteRemovesFromIndexFirst ==
  /\ DeletesOrdered(Store)
  /\ DeletesOrdered(create_index(Store, EmailIndex).S)

\* cats has idx_name and two active rows named 'a', both in the index; DELETE FROM
\* cats matches both, so its loop has a point between the two passes
C24_Witness ==
  /\ IndexOnColumn(Store.table_indexes["cats"], "name") # NoIndex
  /\ Len(matching_rows(Store, "cats", NoWhere).rows) = 2
  /\ \A k \in 1..2 :
       matching_rows(Store, "cats", NoWhere).rows[k].rid
         \in KeyedRids(Store.index_cache["idx_name"], encode_key(StrV("a")))
  /\ delete(Store, [table_name |-> "cats", where |-> NoWhere]).res.rows_affected = 2

\* the store before pass i of the apply loop of an UPDATE started in S
UpdateBefore(S, t, to_update, new_rows, i) ==
  apply_updates(S, t, SubSeq(to_update, 1, i - 1), SubSeq(new_rows, 1, i - 1), 1)

\* the four stores of pass i of the apply loop
UpdatePass(S, t, to_update, new_rows, i) ==
  ReplaceRowPoints(UpdateBefore(S, t, to_update, new_rows, i), t, to_update[i], new_rows[i],
                   HeapInsert(t, UpdateBefore(S, t, to_update, new_rows, i).heap[t], new_rows[i]))

\* the new rid is under the key of the new value in every index of the table,
\* and in none when the new value is null
NewEntryAdded(P, t, new, rid) ==
  \A n \in IndexNames(P.table_indexes[t]) \cap DOMAIN P.index_cache :
    IF Get(new, ColumnOfIndex(P, t, n)).k = "n"
      THEN \A key \in DOMAIN P.index_cache[n] : rid \notin P.index_cache[n][key]
      ELSE rid \in KeyedRids(P.index_cache[n], encode_key(Get(new, ColumnOfIndex(P, t, n))))

\* a pass from store prev through the points P: the new version is appended under
\* the next rid, then the old rid is tombstoned, then the old rid leaves the
\* indexes, then the new rid enters them
PassOrdered(prev, t, old, new, P) ==
  /\ P[1].heap[t].log = Append(prev.heap[t].log, EncodeLine(prev.heap[t].next_rid, new))
  /\ P[1].heap[t].tomb = prev.heap[t].tomb
  /\ P[1].index_cache = prev.index_cache
  /\ P[2].heap[t].log = P[1].heap[t].log
  /\ P[2].heap[t].tomb = prev.heap[t].tomb \cup {old.rid}
  /\ P[2].index_cache = prev.index_cache
  /\ P[3].heap[t] = P[2].heap[t]
  /\ InNoIndex(P[3], t, old.rid)
  /\ InNoIndex(P[3], t, prev.heap[t].next_rid)
  /\ P[4].heap[t] = P[2].heap[t]
  /\ InNoIndex(P[4], t, old.rid)
  /\ NewEntryAdded(P[4], t, new, prev.heap[t].next_rid)

\* the passes of a successful UPDATE follow one another, each in the order above,
\* and the statement leaves the heap of the last point
ApplyOrdered(S0, t, to_update, new_rows, out) ==
  /\ \A i \in 1..Len(to_update) :
       PassOrdered(UpdateBefore(S0, t, to_update, new_rows, i), t, to_update[i], new_rows[i],
                   UpdatePass(S0, t, to_update, new_rows, i))
  /\ out.S.heap[t] = UpdatePass(S0, t, to_update, new_rows, Len(to_update))[4].heap[t]
  /\ out.S.index_cache = UpdatePass(S0, t, to_update, new_rows, Len(to_update))[4].index_cache

UpdateValidatedFirst(stmt, m, out) ==
  IF out.res.status # "ok" THEN StoreUnchanged(out)
  ELSE m.rows # << >> =>
         ApplyOrdered(OpenTableIndexes(Store, stmt.table_name), stmt.table_name, m.rows,
                      [i \in 1..Len(m.rows) |-> Candidate(stmt.table_name, m.rows[i].row, stmt.assignments)],
                      out)

\* C25: an UPDATE whose type check or constraint enforcement fails for some
\* candidate row has mutated neither the heap nor any index; otherwise it handles
\* the matched rows one at a time, each in the order: insert the new version
\* under a new rid, tombstone the old rid, remove (old value, old rid) from the
\* indexes, add (new value, new rid).
C25_UpdateValidatesThenMutatesInOrder ==
  \A stmt \in ProbeUpdateStmts :
    UpdateValidatedFirst(stmt,
                         matching_rows(OpenTableIndexes(Store, stmt.table_name), stmt.table_name, stmt.where),
                         update(Store, stmt))

\* cats has idx_name and two active rows: UPDATE cats SET name = 'a' replaces
\* both, one pass after the other, and UPDATE cats SET flag = NULL is rejected
\* for both candidates
C25_Witness ==
  /\ IndexOnColumn(Store.table_indexes["cats"], "name") # NoIndex
  /\ Len(scan_active(Store.heap["cats"])) = 2
  /\ update(Store, [table_name |-> "cats", where |-> NoWhere,
                    assignments |-> <<[column |-> "name", value |-> StrV("a")]>>]).res.rows_affected = 2
  /\ update(Store, [table_name |-> "cats", where |-> NoWhere,
                    assignments |-> <<[column |-> "flag", value |-> Null]>>]).res.status
       = ConstraintError("").status

\* C26 (as claimed): a heap insert performs its three writes in the order: the
\* record is appended to the log, then its offset is recorded in the rid
\* directory, and last the incremented rid counter is persisted.
C26_InsertWritesLogDirectoryCounter ==
  \A stmt \in InsertStmts :
    LET h == Store.heap[stmt.table_name]
        P == HeapInsertPoints(stmt.table_name, h, InsertRow(stmt.table_name, stmt))
    IN /\ P[1].log = Append(h.log, EncodeLine(h.next_rid, InsertRow(stmt.table_name, stmt)))
       /\ P[1].dir = h.dir
       /\ P[1].next_rid = h.next_rid
       /\ P[2].log = P[1].log
       /\ P[2].dir = DirSet(h.dir, h.next_rid, FileSize(stmt.table_name, h.log))
       /\ P[2].next_rid = h.next_rid
       /\ P[3].log = P[1].log
       /\ P[3].dir = P[2].dir
       /\ P[3].next_rid = h.next_rid + 1

\* the files of a table whose directory file was lost
DirectoryLost(h) == [h EXCEPT !.dir = EmptyHeap.dir]

\* one entry per record of the log, at the offset where the record starts
EntryPerRecord(t, h) ==
  /\ DOMAIN h.dir = {h.log[i].rid : i \in 1..Len(h.log)}
  /\ \A i \in 1..Len(h.log) : h.dir[h.log[i].rid] = OffsetOf(t, h.log, i)

\* C27: opening a table whose log is non-empty and whose directory is empty
\* rebuilds the directory, and the rebuilt directory is the one the inserts had
\* maintained: one entry per record of the log, tombstoned rids included, at the
\* offset where the record starts; rebuilding a directory that is in sync, and
\* opening a table whose directory is in sync, change nothing.
C27_RebuildRestoresDirectory ==
  \A t \in Tables :
    /\ HeapOpen(t, DirectoryLost(Store.heap[t])) = Store.heap[t]
    /\ EntryPerRecord(t, HeapOpen(t, DirectoryLost(Store.heap[t])))
    /\ rebuild_directory_from_data(t, Store.heap[t]) = Store.heap[t]
    /\ HeapOpen(t, Store.heap[t]) = Store.heap[t]

\* cats holds three records, the second tombstoned (replaced by the third), and
\* the open of its files without the directory restores all three entries
C27_Witness ==
  /\ Len(Store.heap["cats"].log) = 3
  /\ Store.heap["cats"].tomb = {2}
  /\ DirectoryLost(Store.heap["cats"]) # Store.heap["cats"]
  /\ DOMAIN HeapOpen("cats", DirectoryLost(Store.heap["cats"])).dir = {1, 2, 3}

\* the directory entry of rid points at the start of the record of another rid
PointsAtOtherRecord(t, h, rid) ==
  /\ rid \in DOMAIN h.dir
  /\ ReadLineAt(t, h.log, h.dir[rid]).st = "line"
  /\ ReadLineAt(t, h.log, h.dir[rid]).line.rid # rid

\* a statement run on store S2 ended with an execution error and left the
\* files of table t and the indexes as they were in S2
FailedWithoutRepair(S2, t, out) ==
  /\ ExecutionFailed(out)
  /\ out.S.heap[t] = S2.heap[t]
  /\ out.S.index_cache = S2.index_cache
  /\ out.S.index_file = S2.index_file

\* the statements that fetch rid by the index on store S2 fail and repair nothing
FetchFailsUnrepaired(S2, t, rid) ==
  \A w \in Wheres(t) :
    (\E k \in 1..Len(choose_index_candidates(S2, t, w, 1, NoChoice).rids) :
       choose_index_candidates(S2, t, w, 1, NoChoice).rids[k] = rid)
    => /\ FailedWithoutRepair(S2, t, select_single_table(S2, SelectWhere(t, w)))
       /\ FailedWithoutRepair(S2, t, delete(S2, [table_name |-> t, where |-> w]))

\* get_by_rid on heap d of table t, d being the heap of the store with the
\* directory entry of some rid rewritten
GetByRidChecked(t, d, rid) ==
  /\ rid \in d.tomb => get_by_rid(t, d, rid) = [st |-> "none", obj |-> NoObj]
  /\ rid \notin DOMAIN d.dir => get_by_rid(t, d, rid) = [st |-> "none", obj |-> NoObj]
  /\ rid \notin d.tomb /\ PointsAtOtherRecord(t, d, rid) =>
       /\ get_by_rid(t, d, rid) = [st |-> "error", obj |-> NoObj]
       /\ FetchFailsUnrepaired([Store EXCEPT !.heap[t] = d], t, rid)

\* C28: get_by_rid returns absent for a tombstoned rid and for a rid without
\* directory entry, whatever the directory or the log hold at the entry's
\* offset; for a non-tombstoned rid whose directory offset is the start of the
\* record of another rid it fails, returns no row, and the statement that
\* fetched the rid ends with an error and leaves directory, log and tombstones
\* as they were.
C28_GetByRidAbsentOrFatal ==
  \A t \in Tables : \A rid \in 1..(MaxRecords + 1) :
    /\ GetByRidChecked(t, Store.heap[t], rid)
    /\ \A r2 \in DOMAIN Store.heap[t].dir : \A off \in DamageOffsets(t, Store.heap[t]) :
         GetByRidChecked(t, Redirected(Store.heap[t], r2, off), rid)

\* users has idx_id and two active rows; with the entry of the row with id 1
\* pointing at the other record, get_by_rid fails for it and DELETE WHERE id = 1
\* ends with an error; cats has a tombstoned rid whose entry points past the end
\* of the file, and get_by_rid returns absent for it
C28_Witness ==
  /\ IndexOnColumn(Store.table_indexes["users"], "id") # NoIndex
  /\ \E r1, r2 \in ActiveRids(Store.heap["users"]) :
       /\ r1 # r2
       /\ Get(Store.heap["users"].written[r1], "id") = IntV(1)
       /\ LET d == Redirected(Store.heap["users"], r1, Store.heap["users"].dir[r2])
          IN /\ PointsAtOtherRecord("users", d, r1)
             /\ get_by_rid("users", d, r1).st = "error"
             /\ ExecutionFailed(delete([Store EXCEPT !.heap["users"] = d],
                                       [table_name |-> "users",
                                        where |-> <<Condition(ColumnRef(NoTable, "id"), "=", IntV(1))>>]))
  /\ \E r \in Store.heap["cats"].tomb :
       get_by_rid("cats",
                  Redirected(Store.heap["cats"], r, FileSize("cats", Store.heap["cats"].log)),
                  r).st = "none"

\* the WHERE clauses with a condition whose operator is not '='
NonEqualityWheres(t) == {w \in PlanWheres(t) : \E i \in 1..Len(w) : w[i].op # "="}

\* C29 (as claimed): every SELECT, UPDATE and DELETE whose single-table WHERE
\* holds a condition with an operator other than '=' ends with an execution
\* error, whatever the table holds: also when it is empty and when the chosen
\* index lookup gives no candidates.
C29_NonEqualityRejected ==
  \A t \in Tables : \A w \in NonEqualityWheres(t) :
    /\ ExecutionFailed(select_single_table(Store, SelectWhere(t, w)))
    /\ ExecutionFailed(delete(Store, [table_name |-> t, where |-> w]))
    /\ \A a \in Assignments(t) :
         ExecutionFailed(update(Store, [table_name |-> t, assignments |-> a, where |-> w]))

\* the values looked up: null and the non-null values of the three kinds
LookupValues == KeyValues \cup {Null}

\* lookup(v) on mapping m: empty for null and for a key the mapping does not
\* have, else the rids under the key, each once, in ascending order
LookupAsClaimed(m, v) ==
  IF v.k = "n" \/ encode_key(v) \notin DOMAIN m THEN IndexLookup(m, v) = << >>
  ELSE /\ \A i, j \in 1..Len(IndexLookup(m, v)) : i < j => IndexLookup(m, v)[i] < IndexLookup(m, v)[j]
       /\ Range(IndexLookup(m, v)) = m[encode_key(v)]
       /\ IndexLookup(m, v) # << >>

\* C30: HashIndex.lookup(value) returns the empty list when value is null or its
\* key is not in the index, and otherwise every rid stored under the key exactly
\* once, in ascending order; the statements that look a value up leave the index
\* as it was.  Checked on every index of the store and on every such index after
\* one more add, of a smaller or larger rid, under any value.
C30_LookupSortedOrEmpty ==
  /\ \A meta \in AllIndexes(Store) : \A v \in LookupValues :
       /\ LookupAsClaimed(OpenIndex(Store, meta), v)
       /\ \A a \in LookupValues : \A rid \in 1..(MaxRecords + 1) :
            LookupAsClaimed(IndexAdd(OpenIndex(Store, meta), a, rid), v)
  /\ \A stmt \in SelectStmts :
       /\ select_single_table(Store, stmt).S.index_cache = Store.index_cache
       /\ select_single_table(Store, stmt).S.index_file = Store.index_file

\* idx_name holds two rids under the key of 'a': the lookup returns both in
\* ascending order, also after the smaller one is added again; the lookups for
\* null and for a value under no key are empty
C30_Witness ==
  /\ "idx_name" \in DOMAIN Store.index_cache
  /\ Len(IndexLookup(Store.index_cache["idx_name"], StrV("a"))) = 2
  /\ IndexLookup(Store.index_cache["idx_name"], StrV("a"))[1]
       < IndexLookup(Store.index_cache["idx_name"], StrV("a"))[2]
  /\ IndexLookup(IndexAdd(Store.index_cache["idx_name"], StrV("a"),
                          IndexLookup(Store.index_cache["idx_name"], StrV("a"))[1]), StrV("a"))
       = IndexLookup(Store.index_cache["idx_name"], StrV("a"))
  /\ IndexLookup(Store.index_cache["idx_name"], Null) = << >>
  /\ IndexLookup(Store.index_cache["idx_name"], StrV("1")) = << >>

\* ---------------------------------------------------------------------------
\* C31..C39
\* ---------------------------------------------------------------------------

\* no key of the mapping has an empty rid set
NoEmptyKey(m) == \A key \in DOMAIN m : m[key] # {}

\* the mapping holds rid under the key of value a
PairPresent(m, a, rid) ==
  a.k # "n" /\ encode_key(a) \in DOMAIN m /\ rid \in m[encode_key(a)]

\* one add or remove on mapping m: no key is left empty, the remove of an absent
\* pair and the add-then-remove of an absent pair give m back, and the remove of
\* the last rid of a key drops the key
OneOpCompact(m, a, rid) ==
  /\ NoEmptyKey(IndexAdd(m, a, rid))
  /\ NoEmptyKey(IndexRemove(m, a, rid))
  /\ ~PairPresent(m, a, rid) =>
       /\ IndexRemove(m, a, rid) = m
       /\ IndexRemove(IndexAdd(m, a, rid), a, rid) = m
  /\ PairPresent(m, a, rid) /\ m[encode_key(a)] = {rid} =>
       encode_key(a) \notin DOMAIN IndexRemove(m, a, rid)
  /\ PairPresent(m, a, rid) /\ m[encode_key(a)] # {rid} =>
       IndexRemove(m, a, rid)[encode_key(a)] = m[encode_key(a)] \ {rid}

\* a second add or remove after a first one leaves no empty key either
TwoOpsCompact(m, a, rid) ==
  \A b \in {Null, IntV(1), StrV("a")} : \A r2 \in 1..(MaxRecords + 1) :
    /\ NoEmptyKey(IndexRemove(IndexAdd(m, b, r2), a, rid))
    /\ NoEmptyKey(IndexRemove(IndexRemove(m, b, r2), a, rid))
    /\ NoEmptyKey(IndexAdd(IndexRemove(m, b, r2), a, rid))

OpsCompact(m) ==
  /\ NoEmptyKey(m)
  /\ \A a \in LookupValues : \A rid \in 1..(MaxRecords + 1) :
       OneOpCompact(m, a, rid) /\ TwoOpsCompact(m, a, rid)

\* C31: no key of a hash index maps to an empty rid set, in every index the
\* statements have built (as opened and as saved), after clear, and after one
\* or two further adds and removes of any value and rid: remove drops the key
\* with its last rid, the remove of a pair that is not present changes nothing,
\* and add followed by remove of a pair that was not present restores the index.
C31_NoEmptyKeySets ==
  /\ OpsCompact(EmptyMapping)
  /\ \A meta \in AllIndexes(Store) :
       /\ OpsCompact(OpenIndex(Store, meta))
       /\ meta.name \in DOMAIN Store.index_file => NoEmptyKey(IndexLoad(Store.index_file[meta.name]))

\* idx_name holds two rids under the key of 'a' and idx_id one rid under the key
\* of 1: the remove of the single rid drops its key, the remove of one of the
\* two keeps the key with the other
C31_Witness ==
  /\ "idx_name" \in DOMAIN Store.index_cache
  /\ "idx_id" \in DOMAIN Store.index_cache
  /\ Cardinality(KeyedRids(Store.index_cache["idx_name"], encode_key(StrV("a")))) = 2
  /\ Cardinality(KeyedRids(Store.index_cache["idx_id"], encode_key(IntV(1)))) = 1
  /\ \A rid \in KeyedRids(Store.index_cache["idx_id"], encode_key(IntV(1))) :
       DOMAIN IndexRemove(Store.index_cache["idx_id"], IntV(1), rid) = {}
  /\ \A rid \in KeyedRids(Store.index_cache["idx_name"], encode_key(StrV("a"))) :
       Cardinality(IndexRemove(Store.index_cache["idx_name"], StrV("a"), rid)[encode_key(StrV("a"))]) = 1

\* every rid the mapping holds, under any key
IndexedRids(m) == UNION {m[key] : key \in DOMAIN m}

\* the rids of the records of the log, tombstoned or not, whose column col is null
NullRids(h, col) ==
  {ParseLine(h.log[i]).rid : i \in {j \in 1..Len(h.log) : Get(ParseLine(h.log[j]).row, col).k = "n"}}

\* mapping m, an index on column col of heap h, has no key for null and no rid of
\* a row whose col is null, and add and remove of null leave it as it is
NullFreeMapping(m, h, col) ==
  /\ encode_key(Null) \notin DOMAIN m
  /\ IndexedRids(m) \cap NullRids(h, col) = {}
  /\ \A rid \in 1..(MaxRecords + 1) : IndexAdd(m, Null, rid) = m /\ IndexRemove(m, Null, rid) = m

NullFree(S, meta) ==
  /\ NullFreeMapping(OpenIndex(S, meta), S.heap[meta.table_name], meta.column_name)
  /\ meta.name \in DOMAIN S.index_file =>
       NullFreeMapping(IndexLoad(S.index_file[meta.name]), S.heap[meta.table_name], meta.column_name)

\* C32: null is never indexed. In every reachable store (any sequence of CREATE
\* INDEX, INSERT, UPDATE and DELETE, with null names and emails and updates to and
\* from null), every index, as opened and as saved, and an index created now on
\* users.email, has no key for null and holds no rid of a row whose indexed
\* column is null; add(null, rid) and remove(null, rid) leave the index unchanged.
C32_NullNeverIndexed ==
  /\ \A meta \in AllIndexes(Store) : NullFree(Store, meta)
  /\ NullFree(create_index(Store, EmailIndex).S,
              [name |-> "idx_email", table_name |-> "users", column_name |-> "email"])
  /\ \A rid \in 1..(MaxRecords + 1) :
       IndexAdd(EmptyMapping, Null, rid) = EmptyMapping /\ IndexRemove(EmptyMapping, Null, rid) = EmptyMapping

\* idx_name exists, a cat named 'a' and a cat with a null name are active and a
\* third version, tombstoned, has a null name: the index holds only the rid of 'a'
C32_Witness ==
  /\ "idx_name" \in DOMAIN Store.index_cache
  /\ Len(Store.heap["cats"].log) = 3
  /\ Cardinality(ActiveRids(Store.heap["cats"])) = 2
  /\ Cardinality(NullRids(Store.heap["cats"], "name")) = 2
  /\ Cardinality(NullRids(Store.heap["cats"], "name") \cap ActiveRids(Store.heap["cats"])) = 1
  /\ DOMAIN Store.index_cache["idx_name"] = {encode_key(StrV("a"))}
  /\ Cardinality(IndexedRids(Store.index_cache["idx_name"])) = 1

\* the PRIMARY KEY and UNIQUE columns of a table
KeyColumns(t) == {c \in column_names(t) : ColumnDefOf(t, c).primary_key \/ ColumnDefOf(t, c).unique}

\* UPDATE t SET c = v [WHERE ...] with c a PRIMARY KEY or UNIQUE column
KeyUpdateStmts == {stmt \in UpdateStmts : stmt.assignments[1].column \in KeyColumns(stmt.table_name)}

\* the rows the statement matches, as _update finds them
MatchedBy(S, stmt) ==
  matching_rows(OpenTableIndexes(S, stmt.table_name), stmt.table_name, stmt.where)

\* an active row other than old holds value v in column c
HeldByOther(S, t, c, v, old) ==
  /\ v.k # "n"
  /\ \E i \in 1..Len(scan_active(S.heap[t])) :
       /\ scan_active(S.heap[t])[i].rid # old.rid
       /\ Get(scan_active(S.heap[t])[i].row, c) = v

\* v passes the type check of column c and its NOT NULL check
Acceptable(t, c, v) ==
  /\ TypeMatches(ColumnDefOf(t, c), v)
  /\ v.k = "n" => ~(ColumnDefOf(t, c).primary_key \/ ColumnDefOf(t, c).not_null)

DuplicateMessages ==
  {ConstraintError(n \o " constraint failed: duplicate value" \o s).msg :
     n \in {"PRIMARY KEY", "UNIQUE"}, s \in {"", " within statement batch"}}

\* the outcome of a key update that matched the one row old
KeyUpdateOutcome(S, stmt, old, c, v, out) ==
  /\ HeldByOther(S, stmt.table_name, c, v, old) =>
       /\ out.res.status = ConstraintError("").status
       /\ out.res.msg \in DuplicateMessages
       /\ out.S.heap = S.heap
  /\ ~HeldByOther(S, stmt.table_name, c, v, old) =>
       /\ out.res.msg \notin DuplicateMessages
       /\ Acceptable(stmt.table_name, c, v) =>
            /\ out.res = CommandOk(1, "rows updated")
            /\ Get(scan_active(out.S.heap[stmt.table_name])[Len(scan_active(out.S.heap[stmt.table_name]))].row, c) = v

KeyUpdateAsClaimed(S, stmt) ==
  MatchedBy(S, stmt).err = Ok /\ Len(MatchedBy(S, stmt).rows) = 1 =>
    KeyUpdateOutcome(S, stmt, MatchedBy(S, stmt).rows[1], stmt.assignments[1].column,
                     stmt.assignments[1].value, update(S, stmt))

\* C33: an UPDATE that matches exactly one row and sets its PRIMARY KEY or UNIQUE
\* column is checked against the other active rows only: with the value the row
\* already holds, or a value no other active row holds, the uniqueness checks
\* raise nothing and the update succeeds whenever the value passes the type and
\* NOT NULL checks; with a value that an active row the UPDATE does not match
\* holds, it fails with a duplicate-value constraint error and writes nothing.
C33_ReplacedRowsLeftOutOfUniqueness ==
  \A stmt \in KeyUpdateStmts : KeyUpdateAsClaimed(Store, stmt)

\* users holds (1, 'a') and (2, null): SET id = 1 and SET email = 'a' on the row
\* with id 1 succeed, SET id = 2 on it and SET email = 'a' on the other row fail
C33_Witness ==
  LET one == <<Condition(ColumnRef(NoTable, "id"), "=", IntV(1))>>
      two == <<Condition(ColumnRef(NoTable, "id"), "=", IntV(2))>>
      U(c, v, w) == update(Store, [table_name |-> "users", assignments |-> <<[column |-> c, value |-> v]>>,
                                   where |-> w])
  IN /\ Len(scan_active(Store.heap["users"])) = 2
     /\ Len(MatchedBy(Store, [table_name |-> "users", where |-> one]).rows) = 1
     /\ Len(MatchedBy(Store, [table_name |-> "users", where |-> two]).rows) = 1
     /\ Get(MatchedBy(Store, [table_name |-> "users", where |-> one]).rows[1].row, "email") = StrV("a")
     /\ U("id", IntV(1), one).res = CommandOk(1, "rows updated")
     /\ U("email", StrV("a"), one).res = CommandOk(1, "rows updated")
     /\ U("id", IntV(2), one).res.status = ConstraintError("").status
     /\ U("email", StrV("a"), two).res.status = ConstraintError("").status

\* the same table contents with no index on any table
Unindexed(S) ==
  [heap |-> S.heap, table_indexes |-> [t \in Tables |-> << >>], index_cache |-> EmptyMapping,
   index_file |-> EmptyMapping]

\* two outcomes of a statement on table t leave the same heap and report the same
\* count
SameWrites(t, a, b) ==
  /\ a.S.heap[t].tomb = b.S.heap[t].tomb
  /\ a.S.heap[t].log = b.S.heap[t].log
  /\ a.res.status = b.res.status
  /\ a.res.rows_affected = b.res.rows_affected

\* C34 (as claimed): for the same table contents and the same WHERE, null
\* comparisons included, DELETE tombstones and UPDATE replaces the same rows and
\* reports the same rows_affected with the indexes of the store as with no index.
C34_WritesIndependentOfIndex ==
  /\ \A stmt \in DeleteStmts :
       SameWrites(stmt.table_name, delete(Store, stmt), delete(Unindexed(Store), stmt))
  /\ \A stmt \in UpdateStmts :
       SameWrites(stmt.table_name, update(Store, stmt), update(Unindexed(Store), stmt))

\* cats JOIN cats ON cats.flag = cats.flag: the joined table is the base table
SelfJoin ==
  [table_name |-> "cats", left |-> ColumnRef("cats", "flag"), right |-> ColumnRef("cats", "flag")]

\* ... JOIN users ON users.email = cats.name after users JOIN cats: the joined
\* table was joined earlier in the chain
JoinBack ==
  [table_name |-> "users", left |-> ColumnRef("users", "email"), right |-> ColumnRef("cats", "name")]

\* every combined row the join step builds from left row lrow agrees with lrow
\* on every key of lrow
StepKeepsLeft(S, lrow, join) ==
  \A i \in 1..Len(inner_join(S, <<lrow>>, join).rows) :
    \A k \in DOMAIN lrow : inner_join(S, <<lrow>>, join).rows[i][k] = lrow[k]

StepsKeepLeft(S, left_rows, join) ==
  \A i \in 1..Len(left_rows) : StepKeepsLeft(S, left_rows[i], join)

\* C35 (as claimed): a join step never overwrites a value of the left row it
\* builds on, for a join with another table, a self-join, and a join with a table
\* joined earlier in the chain.
C35_JoinKeepsLeftValues ==
  /\ StepsKeepLeft(Store, SeedRows(Store, "users"), TheJoin)
  /\ StepsKeepLeft(Store, SeedRows(Store, "cats"), SelfJoin)
  /\ StepsKeepLeft(Store, inner_join(Store, SeedRows(Store, "users"), TheJoin).rows, JoinBack)

\* the part of C35 that holds: a join with a table not yet in the row
C35_OtherTableKeepsLeft == StepsKeepLeft(Store, SeedRows(Store, "users"), TheJoin)

\* RidDirectory.save: {str(rid): offset}
DirSave(d) == [k \in {ToString(r) : r \in DOMAIN d} |-> d[CHOOSE r \in DOMAIN d : ToString(r) = k]]

\* the largest rid a statement can give out: every record replaced once
MaxRid == 2 * MaxRecords + 1

\* RidDirectory.open: {int(k): int(v)}
DirLoad(f) == [r \in {n \in 0..MaxRid : ToString(n) \in DOMAIN f} |-> f[ToString(r)]]

\* Tombstones.save: the sorted list of the deleted rids
TombSave(deleted) == SortedSeq(deleted)

\* Tombstones.open: the set of the listed rids
TombLoad(f) == Range(f)

\* the heap of table t as HeapTable.open reads it from its files
HeapReopened(t, h) ==
  HeapOpen(t, [log |-> h.log, dir |-> DirLoad(DirSave(h.dir)), tomb |-> TombLoad(TombSave(h.tomb)),
               next_rid |-> h.next_rid, written |-> h.written])

\* the database opened again: the files as they are, and an empty index cache
Reopened(S) ==
  [heap |-> [t \in Tables |-> HeapReopened(t, S.heap[t])], table_indexes |-> S.table_indexes,
   index_cache |-> EmptyMapping, index_file |-> S.index_file]

\* every index of the catalog has a file, and the file of a cached index is the
\* saved form of the cached mapping and loads back to it
IndexFilesCurrent(S) ==
  \A meta \in AllIndexes(S) :
    /\ meta.name \in DOMAIN S.index_file
    /\ meta.name \in DOMAIN S.index_cache =>
         /\ S.index_file[meta.name] = IndexSave(meta, S.index_cache[meta.name])
         /\ IndexLoad(S.index_file[meta.name]) = S.index_cache[meta.name]

\* the directory and tombstone files load back to the directory and the set
HeapFilesCurrent(S) ==
  \A t \in Tables :
    /\ DirLoad(DirSave(S.heap[t].dir)) = S.heap[t].dir
    /\ TombLoad(TombSave(S.heap[t].tomb)) = S.heap[t].tomb
    /\ HeapReopened(t, S.heap[t]) = S.heap[t]

\* opening the database again gives the same indexes
SameIndexesReopened(S) ==
  \A meta \in AllIndexes(S) : OpenIndex(Reopened(S), meta) = OpenIndex(S, meta)

PersistedIsCurrent(S) == IndexFilesCurrent(S) /\ HeapFilesCurrent(S) /\ SameIndexesReopened(S)

RidsConsecutive(h) ==
  /\ h.next_rid = Len(h.log) + 1
  /\ \A k \in 1..Len(h.log) : ParseLine(h.log[k]).rid = k
  /\ \A rid \in DOMAIN h.dir : rid < h.next_rid

\* a statement that did not succeed left the counters where they were
NoRidConsumed(out) ==
  out.res.status # "ok" => \A t \in Tables : out.S.heap[t].next_rid = Store.heap[t].next_rid

\* C37: at every statement boundary the rid counter of a table is one plus the
\* number of records of its log, the k-th record has rid k, and the counter is
\* greater than every rid of the directory; an INSERT or UPDATE rejected by a
\* type check, a constraint check or any other error leaves the counter as it was.
C37_RidCounterCountsRecords ==
  /\ \A S \in BoundaryStores : \A t \in Tables : RidsConsecutive(S.heap[t])
  /\ \A stmt \in InsertStmts \cup StrayInsertStmts : NoRidConsumed(insert(Store, stmt))
  /\ \A stmt \in UpdateStmts \cup StrayUpdateStmts : NoRidConsumed(update(Store, stmt))

\* users has three records, the first tombstoned, and counter 4; an INSERT with
\* the key of an active row is rejected by the constraint check and an INSERT of
\* a text key by the type check
C37_Witness ==
  /\ Len(Store.heap["users"].log) = 3
  /\ Store.heap["users"].tomb = {1}
  /\ Store.heap["users"].next_rid = 4
  /\ \E stmt \in InsertStmts :
       /\ stmt.table_name = "users"
       /\ insert(Store, stmt).res.status = ConstraintError("").status
  /\ \E stmt \in InsertStmts :
       /\ stmt.table_name = "users"
       /\ insert(Store, stmt).res.status = ExecutionError("").status

\* the rids that have a directory entry and a record in the log
Backed(h) == {rid \in DOMAIN h.dir : \E k \in 1..Len(h.log) : ParseLine(h.log[k]).rid = rid}

\* every rid in an index of table t, opened or on file, is backed by the heap
IndexRidsBacked(P, t) ==
  \A n \in IndexNames(P.table_indexes[t]) :
    /\ n \in DOMAIN P.index_cache => IndexedRids(P.index_cache[n]) \subseteq Backed(P.heap[t])
    /\ n \in DOMAIN P.index_file => IndexedRids(IndexLoad(P.index_file[n])) \subseteq Backed(P.heap[t])

\* the store at point j of a heap insert of row into table t of store P
DuringHeapInsert(P, t, row, j) ==
  [heap |-> [u \in Tables |-> IF u = t THEN HeapInsertPoints(t, P.heap[t], row)[j] ELSE P.heap[u]],
   table_indexes |-> P.table_indexes, index_cache |-> P.index_cache, index_file |-> P.index_file]

\* at the three points of a heap insert the indexes are backed and the rid being
\* given out is in none of them
HeapInsertBacked(P, t, row) ==
  \A j \in 1..3 :
    /\ IndexRidsBacked(DuringHeapInsert(P, t, row, j), t)
    /\ InNoIndex(DuringHeapInsert(P, t, row, j), t, P.heap[t].next_rid)

\* the points of an INSERT that passed its checks: the heap insert, the adds to
\* the opened indexes, the saves
InsertBacked(S, t, row) ==
  /\ HeapInsertBacked(OpenTableIndexes(S, t), t, row)
  /\ IndexRidsBacked(AddToTableIndexes(OpenTableIndexes(DuringHeapInsert(S, t, row, 3), t), t, row,
                                       S.heap[t].next_rid), t)
  /\ IndexRidsBacked(WriteRow(S, t, row, HeapInsert(t, S.heap[t], row)), t)

InsertsBacked(S) ==
  \A stmt \in InsertStmts :
    insert(S, stmt).res.status = "ok" => InsertBacked(S, stmt.table_name, InsertRow(stmt.table_name, stmt))

\* the points of pass i of the apply loop of an UPDATE
UpdatePassBacked(S0, t, to_update, new_rows, i) ==
  /\ HeapInsertBacked(UpdateBefore(S0, t, to_update, new_rows, i), t, new_rows[i])
  /\ \A j \in 1..4 : IndexRidsBacked(UpdatePass(S0, t, to_update, new_rows, i)[j], t)

UpdateBacked(S, stmt, m, out) ==
  out.res.status = "ok" /\ m.rows # << >> =>
    /\ \A i \in 1..Len(m.rows) :
         UpdatePassBacked(OpenTableIndexes(S, stmt.table_name), stmt.table_name, m.rows,
                          [k \in 1..Len(m.rows) |-> Candidate(stmt.table_name, m.rows[k].row, stmt.assignments)],
                          i)
    /\ IndexRidsBacked(out.S, stmt.table_name)

UpdatesBacked(S) ==
  \A stmt \in UpdateStmts :
    UpdateBacked(S, stmt,
                 matching_rows(OpenTableIndexes(S, stmt.table_name), stmt.table_name, stmt.where),
                 update(S, stmt))

\* the points of the loop of a DELETE, and its end
DeleteBacked(S, stmt, S0, m) ==
  m.err = Ok =>
    /\ \A i \in 1..Len(m.rows) : \A j \in 1..2 :
         IndexRidsBacked(DeletePoint(S0, stmt.table_name, m.rows, i, j), stmt.table_name)
    /\ IndexRidsBacked(delete(S, stmt).S, stmt.table_name)

DeletesBacked(S) ==
  \A stmt \in DeleteStmts :
    DeleteBacked(S, stmt, OpenTableIndexes(S, stmt.table_name),
                 matching_rows(OpenTableIndexes(S, stmt.table_name), stmt.table_name, stmt.where))

\* the build loop of CREATE INDEX after each of its adds, and its end
CreateIndexBacked(S, stmt) ==
  create_index(S, stmt).res.status = "ok" =>
    /\ \A n \in 0..Len(scan_active(S.heap[stmt.table_name])) :
         IndexedRids(BuildIndex(EmptyMapping, SubSeq(scan_active(S.heap[stmt.table_name]), 1, n),
                                stmt.column_name, 1))
           \subseteq Backed(S.heap[stmt.table_name])
    /\ IndexRidsBacked(create_index(S, stmt).S, stmt.table_name)

\* C38: at every point of INSERT, UPDATE, DELETE and CREATE INDEX (after each
\* write of the heap insert, each tombstone, each index remove and add, and the
\* saves) every rid held in an index of the table, opened or on file, has an
\* entry in the rid directory and a record in the log; the rid a heap insert
\* gives out is in no index until the record is appended and its offset recorded.
C38_IndexedRidsAreBacked ==
  /\ \A t \in Tables : IndexRidsBacked(Store, t)
  /\ InsertsBacked(Store)
  /\ UpdatesBacked(Store)
  /\ DeletesBacked(Store)
  /\ \A stmt \in CreateIndexStmts \cup {EmailIndex} : CreateIndexBacked(Store, stmt)

\* cats has idx_name with one rid; during INSERT INTO cats VALUES ('a', TRUE)
\* the log holds the new record before the directory has its rid, the index does
\* not hold the rid then, and holds it at the end
C38_Witness ==
  LET row == [name |-> StrV("a"), flag |-> BoolV(TRUE)]
      rid == Store.heap["cats"].next_rid
  IN /\ "idx_name" \in DOMAIN Store.index_cache
     /\ Cardinality(IndexedRids(Store.index_cache["idx_name"])) = 1
     /\ rid \notin Backed(DuringHeapInsert(Store, "cats", row, 2).heap["cats"])
     /\ Len(DuringHeapInsert(Store, "cats", row, 2).heap["cats"].log) = Len(Store.heap["cats"].log) + 1
     /\ InNoIndex(DuringHeapInsert(Store, "cats", row, 2), "cats", rid)
     /\ rid \in Backed(DuringHeapInsert(Store, "cats", row, 3).heap["cats"])
     /\ rid \in IndexedRids(WriteRow(Store, "cats", row, HeapInsert("cats", Store.heap["cats"], row)).index_cache["idx_name"])

\* a successful UPDATE that matched the rows m in heap h and left heap h2: one
\* record appended per matched row, in order, under the next rids, holding the
\* row with the SET applied; the matched rids tombstoned and no other; as many
\* active rows as before
ReplacedOnce(stmt, h, m, h2) ==
  /\ Len(h2.log) = Len(h.log) + Len(m)
  /\ SubSeq(h2.log, 1, Len(h.log)) = h.log
  /\ \A i \in 1..Len(m) :
       /\ ParseLine(h2.log[Len(h.log) + i]).rid = h.next_rid + i - 1
       /\ ParseLine(h2.log[Len(h.log) + i]).rid \notin DOMAIN h.dir
       /\ ParseLine(h2.log[Len(h.log) + i]).row = Candidate(stmt.table_name, m[i].row, stmt.assignments)
  /\ h2.tomb = h.tomb \cup {m[i].rid : i \in 1..Len(m)}
  /\ \A i, j \in 1..Len(m) : m[i].rid = m[j].rid => i = j
  /\ Cardinality(ActiveRids(h2)) = Cardinality(ActiveRids(h))
  /\ Len(scan_active(h2)) = Len(scan_active(h))

UpdateOnce(S, stmt, m, out) ==
  out.res.status = "ok" =>
    /\ m.err = Ok
    /\ out.res.rows_affected = Len(m.rows)
    /\ ReplacedOnce(stmt, S.heap[stmt.table_name], m.rows, out.S.heap[stmt.table_name])

UpdatesOnce(S) ==
  \A stmt \in UpdateStmts :
    UpdateOnce(S, stmt,
               matching_rows(OpenTableIndexes(S, stmt.table_name), stmt.table_name, stmt.where),
               update(S, stmt))

\* C39: a successful UPDATE ends having appended exactly one new version, under a
\* fresh rid, for each row its WHERE matched when it began, having tombstoned
\* exactly those rows, and reports their number as rows_affected: the new
\* versions are not matched again although they may satisfy the WHERE, a row the
\* SET leaves unchanged is replaced all the same, and the table has as many active
\* rows after as before.  Checked in every reachable store and in the store
\* after CREATE INDEX idx_email ON users(email).
C39_UpdateReplacesEachMatchOnce ==
  /\ UpdatesOnce(Store)
  /\ UpdatesOnce(create_index(Store, EmailIndex).S)

\* cats has idx_name and two active rows named 'a': UPDATE cats SET name = 'a'
\* WHERE name = 'a' leaves the values as they are, its new versions satisfy the
\* WHERE, and it reports 2 and leaves two active rows under two new rids
C39_Witness ==
  LET stmt == [table_name |-> "cats", assignments |-> <<[column |-> "name", value |-> StrV("a")]>>,
               where |-> <<Condition(ColumnRef(NoTable, "name"), "=", StrV("a"))>>]
  IN /\ "idx_name" \in DOMAIN Store.index_cache
     /\ Len(MatchedBy(Store, stmt).rows) = 2
     /\ update(Store, stmt).res = CommandOk(2, "rows updated")
     /\ Len(update(Store, stmt).S.heap["cats"].log) = Len(Store.heap["cats"].log) + 2
     /\ Len(MatchedBy(update(Store, stmt).S, stmt).rows) = 2
     /\ ActiveRids(update(Store, stmt).S.heap["cats"]) \cap ActiveRids(Store.heap["cats"]) = {}

====
